---- MODULE Spec2Model ----
(***************************************************************************)
(* Build-repair loops of nymyaOS:                                          *)
(*   nymya_agent.py       autonomous_edit_loop, generate_code, backups,    *)
(*                        error-loop detection                             *)
(*   federation_agent.py  agent_loop                                       *)
(*   nymya-core/autofix.py  main                                           *)
(*   nymya-core/man/fix_man.py  main, rewrite_and_commit                   *)
(*   nymya-core/nymya_man_and_build_autofix.py  main, attempt_fix_*        *)
(* Each program's state is one record variable whose fields carry the      *)
(* names of the program's globals and locals.                              *)
(***************************************************************************)
EXTENDS Integers, Sequences, FiniteSets, TLC

VARIABLES nymya_agent, recorded, federation_agent, autofix, fix_man, nymya_man

vars == <<nymya_agent, recorded, federation_agent, autofix, fix_man, nymya_man>>

(***************************************************************************)
(* Bounds of the model.                                                    *)
(***************************************************************************)
MaxRecords == 7      \* record_error calls per target in the window harness
MaxApplies == 5      \* apply_change calls in one run of autonomous_edit_loop,
                     \* and one more for every path in skip_files
MaxChunks == 2       \* chunks of one file (chunk_file yields one per 100 lines)

(***************************************************************************)
(* Text.  A text is a sequence of one-character strings, so that lower()   *)
(* and the substring test `needle in hay` are computed, not assumed.       *)
(***************************************************************************)
Upper == <<"A","B","C","D","E","F","G","H","I","J","K","L","M",
           "N","O","P","Q","R","S","T","U","V","W","X","Y","Z">>
Lower == <<"a","b","c","d","e","f","g","h","i","j","k","l","m",
           "n","o","p","q","r","s","t","u","v","w","x","y","z">>

lower_char(c) ==
    IF \E i \in 1..Len(Upper) : Upper[i] = c
    THEN Lower[CHOOSE i \in 1..Len(Upper) : Upper[i] = c]
    ELSE c

lower(text) == [i \in 1..Len(text) |-> lower_char(text[i])]

\* Python's `needle in hay` for strings
contains(hay, needle) ==
    \E i \in 1..(Len(hay) - Len(needle) + 1) :
        SubSeq(hay, i, i + Len(needle) - 1) = needle

\* str.rstrip(chars): chars is a set of characters
RECURSIVE rstrip(_, _)
rstrip(text, chars) ==
    IF text # <<>> /\ text[Len(text)] \in chars
    THEN rstrip(SubSeq(text, 1, Len(text) - 1), chars)
    ELSE text

chars_of(text) == {text[i] : i \in 1..Len(text)}

(***************************************************************************)
(* nymya_agent.py                                                          *)
(***************************************************************************)
HistoryMaxLen == 5   \* deque(maxlen=5)
LoopLen == 5         \* len(errors) == 5
GenRetries == 3      \* generate_code(prompt, retries=3)

\* the project's files, in os.scandir order (the .bak copies apply_change
\* leaves beside them are files too, but the scan of the model lists only
\* these paths)
PathOrder == << <<"m",".","p","y">>, <<"l","i","b",".","a">> >>
Paths == {PathOrder[i] : i \in 1..Len(PathOrder)}

BakSuffix == <<".","b","a","k">>
Bak(file_path) == file_path \o BakSuffix

\* original_path = backup.rstrip('.bak') in rollback_changes
original_path(backup) == rstrip(backup, chars_of(BakSuffix))

\* the names the agent reads or writes: the paths, their backups, and the
\* paths rollback_changes makes of the backups' names
FileNames ==
    Paths \cup {Bak(p) : p \in Paths} \cup {original_path(Bak(p)) : p \in Paths}

NoFile == "<absent>"
Contents == {"c0", "c1"}          \* non-empty file contents
Suggestions == {"c1"}             \* non-empty texts the backend proposes
Errors == {"E1", "E2"}            \* non-empty log outputs

\* os.path.exists
exists(fs, name) == fs[name] # NoFile

\* shutil.copy(src, dst)
copy(fs, src, dst) == [fs EXCEPT ![dst] = fs[src]]

\* write_file(path, content)
write_file(fs, file_path, content) == [fs EXCEPT ![file_path] = content]

\* os.remove(path)
remove(fs, name) == [fs EXCEPT ![name] = NoFile]

\* apply_change: its effect on the file system ...
apply_change_fs_write_first(fs, file_path, new_content) ==
    copy(write_file(fs, file_path, new_content), file_path, Bak(file_path))

apply_change_fs(fs, file_path, new_content) ==
    write_file(copy(fs, file_path, Bak(file_path)), file_path, new_content)

\* what the file system lets apply_change do: everything; not the copy
\* (shutil.copy raises PermissionError, nothing is written); the copy but not
\* the write (the backup is made, then open(path, "w") raises)
Access == {"ok", "copy_denied", "write_denied"}

\* the file system apply_change leaves behind when it raises
apply_change_interrupted(fs, file_path, access) ==
    IF access = "write_denied" THEN copy(fs, file_path, Bak(file_path)) ELSE fs

\* read_file: "" for a file that cannot be read, so that scan_project's
\* `if content:` leaves the path out of the project
read_file(fs, unreadable, file_path) ==
    IF exists(fs, file_path) /\ file_path \notin unreadable THEN fs[file_path] ELSE ""

\* scan_project: the paths whose content is not empty, in directory order
scan_project(fs, unreadable) ==
    SelectSeq(PathOrder, LAMBDA p : read_file(fs, unreadable, p) # "")

\* ... and on change_log
apply_change_log(change_log, file_path) == Append(change_log, Bak(file_path))

\* rollback_changes_for_file
rollback_changes_for_file_keep_backup(fs, file_path) ==
    IF exists(fs, Bak(file_path))
    THEN copy(fs, Bak(file_path), file_path)
    ELSE fs

rollback_changes_for_file(fs, file_path) ==
    IF exists(fs, Bak(file_path))
    THEN remove(copy(fs, Bak(file_path), file_path), Bak(file_path))
    ELSE fs

\* rollback_changes, from entry i of change_log on: shutil.copy raises
\* FileNotFoundError for a backup that is no longer there, and
\* change_log.clear() is reached only after the last entry
RECURSIVE rollback_changes_from(_, _, _)
rollback_changes_from(fs, change_log, i) ==
    IF i > Len(change_log)
    THEN [fs |-> fs, change_log |-> <<>>, raised |-> FALSE]
    ELSE LET backup == change_log[i]
         IN  IF ~exists(fs, backup)
             THEN [fs |-> fs, change_log |-> change_log, raised |-> TRUE]
             ELSE rollback_changes_from(
                      remove(copy(fs, backup, original_path(backup)), backup),
                      change_log, i + 1)

rollback_changes(fs, change_log) == rollback_changes_from(fs, change_log, 1)

\* deque(maxlen=5).append
deque_append_unbounded(errors, error_msg) == Append(errors, error_msg)

deque_append_keep_oldest(errors, error_msg) ==
    IF Len(errors) = HistoryMaxLen THEN errors ELSE Append(errors, error_msg)

deque_append(errors, error_msg) ==
    IF Len(errors) = HistoryMaxLen
    THEN Append(Tail(errors), error_msg)
    ELSE Append(errors, error_msg)

record_error(error_history, file_path, error_msg) ==
    [error_history EXCEPT ![file_path] = deque_append(@, error_msg)]

is_error_loop(error_history, file_path) ==
    LET errors == error_history[file_path]
    IN  Len(errors) = LoopLen
        /\ Cardinality({errors[i] : i \in 1..Len(errors)}) = 1


NoResult == [kind |-> "empty", content |-> "", edit_files |-> <<>>]

\* One request of generate_code's retry loop.  outcome is "ok" when post,
\* raise_for_status and json all succeed, "timeout" for requests.Timeout and
\* "error" for any other RequestException.
generate_code_more_extra(attempt) == attempt <= GenRetries

generate_code_more(attempt) == attempt < GenRetries

generate_code_step(gen, outcome, response) ==
    IF outcome = "ok"
    THEN [gen EXCEPT !.requests = @ + 1,
                     !.after_ok = IF gen.ok THEN @ + 1 ELSE @,
                     !.ok = TRUE,
                     !.status = "returned",
                     !.result = response]
    ELSE [gen EXCEPT !.requests = @ + 1,
                     !.after_ok = IF gen.ok THEN @ + 1 ELSE @,
                     !.attempt = @ + 1,
                     !.status = IF generate_code_more(gen.attempt + 1)
                                THEN "running" ELSE "returned",
                     !.result = NoResult]

\* the state of a fresh call generate_code(prompt) made at `site`
generate_code_call(site) ==
    [site |-> site, attempt |-> 0, requests |-> 0, after_ok |-> 0,
     ok |-> FALSE,
     status |-> IF generate_code_more(0) THEN "running" ELSE "returned",
     result |-> NoResult]

\* what the backend can answer to the edit prompt: no "response" key (or an
\* empty one), or a suggestion
EditResponses ==
    {NoResult} \cup
    {[kind |-> "text", content |-> c, edit_files |-> <<>>] : c \in Suggestions}

\* "edit_files" lists of an error analysis: entries {path, changes}; an entry
\* with empty changes is possible and is skipped by the loop
EditEntries == [path : Paths, changes : Suggestions \cup {""}]

EditLists == {<<>>} \cup {<<e>> : e \in EditEntries}

\* what the backend can answer to the error prompt: nothing, text that is no
\* JSON, JSON that is no object, or an object with its "edit_files"
ErrorResponses ==
    {NoResult,
     [kind |-> "text", content |-> "c0", edit_files |-> <<>>],
     [kind |-> "nondict", content |-> "c0", edit_files |-> <<>>]} \cup
    {[kind |-> "json", content |-> "c0", edit_files |-> es] :
        es \in EditLists}

\* git as nymya_agent.py drives it
AutofixBranch == "oss-local-autofix"
Trunk == "main"

\* git add -A
git_add_all(git, fs) == [git EXCEPT !.index = fs]

\* git commit: creates a commit when the index differs from HEAD (with
\* nothing to commit git fails, and run_command swallows the failure)
git_do_commit(git) ==
    IF git.index # git.head THEN [git EXCEPT !.head = git.index] ELSE git

\* git_commit(message): git add -A && git commit -m
git_commit(git, fs) == git_do_commit(git_add_all(git, fs))

\* git_commit_auto(message): rev-parse --verify, checkout [-b], add -A,
\* commit -a
git_commit_auto(git, fs) ==
    LET on_branch == [git EXCEPT !.branch = AutofixBranch,
                                 !.branches = @ \cup {AutofixBranch}]
    IN  git_do_commit(git_add_all(on_branch, fs))

\* an operation that created no commit
Op(name, file_path) == [name |-> name, path |-> file_path, commit |-> ""]

\* an operation and the branch on which it created a commit ("" if none)
OpCommit(name, file_path, before, after) ==
    [name |-> name, path |-> file_path,
     commit |-> IF after.head # before.head THEN after.branch ELSE ""]

\* no call of generate_code is in progress (a call's locals are dropped
\* when it returns)
IdleGen ==
    [site |-> "none", attempt |-> 0, requests |-> 0, after_ok |-> 0,
     ok |-> FALSE, status |-> "idle", result |-> NoResult]

InitFs == [n \in FileNames |-> IF n \in Paths THEN "c0" ELSE NoFile]

InitNymyaAgent ==
    [pc |-> "scan",
     change_log |-> <<>>,
     error_history |-> [p \in Paths |-> <<>>],
     skip_files |-> {},
     fs |-> InitFs,
     git |-> [branch |-> Trunk, branches |-> {Trunk},
              index |-> InitFs, head |-> InitFs],
     project_files |-> <<>>,
     path |-> PathOrder[1],
     chunks |-> 0,
     changes_made |-> FALSE,
     suggestion |-> "",
     log_output |-> "",
     edit_files |-> <<>>,
     gen |-> IdleGen,
     op |-> Op("none", PathOrder[1])]


(***************************************************************************)
(* autonomous_edit_loop, one action per step of its body.  op is the last  *)
(* backend request or file operation the loop made, and the path it named. *)
(***************************************************************************)
na == nymya_agent

Others == UNCHANGED <<recorded, federation_agent, autofix, fix_man, nymya_man>>

\* while True: project_files = scan_project(project_root); changes_made = False
\* (the process can read every file of the project; scan_project over files
\* it cannot read is ScanProjectCall below)
Scan ==
    /\ na.pc = "scan"
    /\ nymya_agent' = [na EXCEPT
           !.pc = "next_file",
           !.project_files = scan_project(na.fs, {}),
           !.changes_made = FALSE,
           !.op = Op("scan_project", na.path)]
    /\ Others

\* for path, content in project_files.items(): if path in skip_files: continue
NextFileSkipped ==
    /\ na.pc = "next_file"
    /\ na.project_files # <<>>
    /\ Head(na.project_files) \in na.skip_files
    /\ nymya_agent' = [na EXCEPT
           !.project_files = Tail(@),
           !.op = Op("skip", Head(na.project_files))]
    /\ Others

\* ... otherwise infer_language(path) and chunk_file(content)
NextFile ==
    /\ na.pc = "next_file"
    /\ na.project_files # <<>>
    /\ Head(na.project_files) \notin na.skip_files
    /\ \E n \in 1..MaxChunks :
         nymya_agent' = [na EXCEPT
           !.pc = "chunk",
           !.path = Head(na.project_files),
           !.project_files = Tail(@),
           !.chunks = n,
           !.op = Op("infer_language", Head(na.project_files))]
    /\ Others

\* the for over project_files is exhausted: if not changes_made, sleep
EndOfPass ==
    /\ na.pc = "next_file"
    /\ na.project_files = <<>>
    /\ nymya_agent' = [na EXCEPT
           !.pc = "scan",
           !.op = Op(IF na.changes_made THEN "rescan" ELSE "sleep", na.path)]
    /\ Others

\* for chunk in chunk_file(content): suggestion = generate_code(prompt)
NextChunk ==
    /\ na.pc = "chunk"
    /\ na.chunks > 0
    /\ nymya_agent' = [na EXCEPT
           !.pc = "generate_code",
           !.chunks = @ - 1,
           !.gen = generate_code_call("edit"),
           !.op = Op("chunk", na.path)]
    /\ Others

ChunksDone ==
    /\ na.pc = "chunk"
    /\ na.chunks = 0
    /\ nymya_agent' = [na EXCEPT
           !.pc = "next_file",
           !.op = Op("chunks_done", na.path)]
    /\ Others

\* requests.post(LLM_URL, ...) inside generate_code
GenerateCodeRequest ==
    /\ na.pc = "generate_code"
    /\ na.gen.status = "running"
    /\ \E outcome \in {"ok", "timeout", "error"} :
       \E response \in (IF na.gen.site = "edit" THEN EditResponses
                                                ELSE ErrorResponses) :
         /\ outcome # "ok" => response = NoResult
         /\ nymya_agent' = [na EXCEPT
              !.gen = generate_code_step(na.gen, outcome, response),
              !.op = Op("generate_code", na.path)]
    /\ Others

\* if not suggestion
suggestion_missing_never(suggestion) == FALSE

suggestion_missing(suggestion) == suggestion = ""

\* suggestion = generate_code(prompt); if not suggestion: continue
ReturnSuggestion ==
    /\ na.pc = "generate_code"
    /\ na.gen.status = "returned"
    /\ na.gen.site = "edit"
    /\ nymya_agent' = [na EXCEPT
           !.pc = IF suggestion_missing(na.gen.result.content)
                  THEN "chunk" ELSE "apply",
           !.suggestion = na.gen.result.content,
           !.gen = IdleGen,
           !.op = Op(IF na.gen.ok THEN "return" ELSE "exhausted", na.path)]
    /\ Others

\* apply_change(path, suggestion); git_commit_auto(...); changes_made = True
ApplySuggestion ==
    /\ na.pc = "apply"
    /\ Len(na.change_log) < MaxApplies + Cardinality(na.skip_files)
    /\ \E access \in Access :
         LET fs2 == apply_change_fs(na.fs, na.path, na.suggestion)
             git2 == git_commit_auto(na.git, fs2)
         IN  nymya_agent' =
               IF access = "ok"
               THEN [na EXCEPT
                       !.pc = "run",
                       !.fs = fs2,
                       !.change_log = apply_change_log(@, na.path),
                       !.git = git2,
                       !.changes_made = TRUE,
                       !.suggestion = "",
                       !.op = OpCommit("apply_change", na.path, na.git, git2)]
               ELSE [na EXCEPT
                       !.pc = "raised",
                       !.fs = apply_change_interrupted(@, na.path, access),
                       !.op = Op("permission_error", na.path)]
    /\ Others

\* result = run_file_dynamic(path); log_output = stderr + tail_log(LOG_FILE);
\* no log output: on to the next chunk
RunFileClean ==
    /\ na.pc = "run"
    /\ nymya_agent' = [na EXCEPT
           !.pc = "chunk",
           !.log_output = "",
           !.op = Op("run_file_dynamic", na.path)]
    /\ Others

\* if log_output: record_error(path, log_output); handle_errors(...);
\* actions_json = generate_code(error_prompt)
RunFileError ==
    /\ na.pc = "run"
    /\ \E e \in Errors :
         nymya_agent' = [na EXCEPT
           !.pc = "generate_code",
           !.log_output = e,
           !.error_history = record_error(@, na.path, e),
           !.gen = generate_code_call("error"),
           !.op = Op("record_error", na.path)]
    /\ Others

\* actions = json.loads(actions_json): JSONDecodeError -> continue
ReturnAnalysisUnparsed ==
    /\ na.pc = "generate_code"
    /\ na.gen.status = "returned"
    /\ na.gen.site = "error"
    /\ na.gen.result.kind \in {"empty", "text"}
    /\ nymya_agent' = [na EXCEPT
           !.pc = "chunk",
           !.gen = IdleGen,
           !.log_output = "",
           !.op = Op(IF na.gen.ok THEN "parse_failed" ELSE "exhausted", na.path)]
    /\ Others

\* json.loads gave a value that is no object: actions.get raises, and the
\* exception leaves autonomous_edit_loop
ReturnAnalysisNotObject ==
    /\ na.pc = "generate_code"
    /\ na.gen.status = "returned"
    /\ na.gen.site = "error"
    /\ na.gen.result.kind = "nondict"
    /\ nymya_agent' = [na EXCEPT
           !.pc = "raised",
           !.gen = IdleGen,
           !.op = Op("raise", na.path)]
    /\ Others

ReturnAnalysis ==
    /\ na.pc = "generate_code"
    /\ na.gen.status = "returned"
    /\ na.gen.site = "error"
    /\ na.gen.result.kind = "json"
    /\ nymya_agent' = [na EXCEPT
           !.pc = "edit_files",
           !.edit_files = na.gen.result.edit_files,
           !.gen = IdleGen,
           !.log_output = "",
           !.op = Op("parsed", na.path)]
    /\ Others

\* for edit in actions.get("edit_files", []): if e_path and changes:
\*     apply_change(e_path, changes); git_commit(...)
ApplyEdit ==
    /\ na.pc = "edit_files"
    /\ na.edit_files # <<>>
    /\ Head(na.edit_files).changes # ""
    /\ Len(na.change_log) < MaxApplies + Cardinality(na.skip_files)
    /\ \E access \in Access :
         LET edit == Head(na.edit_files)
             fs2 == apply_change_fs(na.fs, edit.path, edit.changes)
             git2 == git_commit(na.git, fs2)
         IN  nymya_agent' =
               IF access = "ok"
               THEN [na EXCEPT
                       !.edit_files = Tail(@),
                       !.fs = fs2,
                       !.change_log = apply_change_log(@, edit.path),
                       !.git = git2,
                       !.op = OpCommit("apply_change", edit.path, na.git, git2)]
               ELSE [na EXCEPT
                       !.pc = "raised",
                       !.fs = apply_change_interrupted(@, edit.path, access),
                       !.op = Op("permission_error", edit.path)]
    /\ Others

SkipEdit ==
    /\ na.pc = "edit_files"
    /\ na.edit_files # <<>>
    /\ Head(na.edit_files).changes = ""
    /\ nymya_agent' = [na EXCEPT
           !.edit_files = Tail(@),
           !.op = Op("skip_edit", Head(na.edit_files).path)]
    /\ Others

\* the run_commands and install loops, then on to the loop check
EditsDone ==
    /\ na.pc = "edit_files"
    /\ na.edit_files = <<>>
    /\ nymya_agent' = [na EXCEPT
           !.pc = "loop_check",
           !.op = Op("run_commands", na.path)]
    /\ Others

\* handle_error_loop(file_path)
handle_error_loop_toggling(agent, file_path) ==
    [agent EXCEPT !.fs = rollback_changes_for_file(@, file_path),
                  !.skip_files = IF file_path \in @ THEN @ \ {file_path}
                                                    ELSE @ \cup {file_path}]

handle_error_loop(agent, file_path) ==
    [agent EXCEPT !.fs = rollback_changes_for_file(@, file_path),
                  !.skip_files = @ \cup {file_path}]

\* if is_error_loop(path): handle_error_loop(path)
LoopCheckOscillating ==
    /\ na.pc = "loop_check"
    /\ is_error_loop(na.error_history, na.path)
    /\ nymya_agent' = [handle_error_loop(na, na.path) EXCEPT
           !.pc = "chunk",
           !.op = Op("handle_error_loop", na.path)]
    /\ Others

LoopCheckContinue ==
    /\ na.pc = "loop_check"
    /\ ~is_error_loop(na.error_history, na.path)
    /\ nymya_agent' = [na EXCEPT
           !.pc = "chunk",
           !.op = Op("is_error_loop", na.path)]
    /\ Others

(***************************************************************************)
(* federation_agent.py and autofix.py: initial states (their actions       *)
(* follow below).                                                          *)
(***************************************************************************)
MAX_LOOP_RETRIES == 3

MaxRetriesIn == 3    \* largest max_retries a caller passes to agent_loop

TextError == <<"e","r","r","o","r">>
TextFatal == <<"f","a","t","a","l">>
TextTimedOut == <<"E","x","e","c","u","t","i","o","n"," ","t","i","m","e","d"," ","o","u","t",".">>
TextCommandFailed == <<"C","o","m","m","a","n","d"," ","f","a","i","l","e","d",":"," ">>
TextMainMarker == <<"u","n","d","e","f","i","n","e","d"," ","r","e","f","e","r","e","n","c","e"," ","t","o"," ","`","m","a","i","n","'">>

\* what a build that ran to completion can print (stdout + stderr)
BuildOutputs ==
    { <<"b","u","i","l","d"," ","o","k">>,
      <<"l","d",":"," ","E","r","r","o","r"," ","1">>,
      <<"F","A","T","A","L",":"," ","x">>,
      <<"e","r","r","o","r",":"," ","u","n","d","e","f","i","n","e","d"," ","r","e","f","e","r","e","n","c","e"," ","t","o"," ","`","m","a","i","n","'">> }

\* str(e) of an exception raised by subprocess.run
ExceptionTexts == { <<"d","e","n","i","e","d">> }

\* run(cmd, timeout): the text it returns for each way the command can end
run_result(outcome, text) ==
    CASE outcome = "completed" -> text
      [] outcome = "timeout" -> TextTimedOut
      [] outcome = "exception" -> TextCommandFailed \o text

\* Step 3 of agent_loop: the test that ends the loop with success
build_succeeded(build_out) ==
    /\ ~contains(lower(build_out), TextError)
    /\ ~contains(lower(build_out), TextFatal)

\* hash_text: SHA-256 hex digest, a fixed function of the text that gives
\* different texts of the model different digests
hash_text(text) == <<"sha256">> \o text

NoHash == <<>>

\* loop_history.get(error_hash, 1)
history_get(loop_history, error_hash, default) ==
    IF error_hash \in DOMAIN loop_history THEN loop_history[error_hash] ELSE default

\* loop_history[error_hash] = count
history_put(loop_history, error_hash, count) ==
    [h \in DOMAIN loop_history \cup {error_hash} |->
        IF h = error_hash THEN count ELSE loop_history[h]]

\* "Detect repeated failures"
detect_repeated_always_new(loop_history, last_error_hash, error_hash) ==
    history_put(loop_history, error_hash, 1)

detect_repeated_cumulative(loop_history, last_error_hash, error_hash) ==
    history_put(loop_history, error_hash,
                history_get(loop_history, error_hash, 0) + 1)

detect_repeated(loop_history, last_error_hash, error_hash) ==
    IF error_hash = last_error_hash
    THEN history_put(loop_history, error_hash,
                     history_get(loop_history, error_hash, 1) + 1)
    ELSE history_put(loop_history, error_hash, 1)

\* git branches, as the programs of the repository name and list them
BRANCH_NAME == <<"g","e","m","i","n","i","-","a","u","t","o","f","i","x">>
BranchMain == <<"m","a","i","n">>
BranchLonger == <<"g","e","m","i","n","i","-","a","u","t","o","f","i","x","-","v","2">>
\* git_setup's default branch, a branch whose name contains it, and a
\* branch a developer works on
SetupBranch == <<"o","s","s","-","l","o","c","a","l","-","a","u","t","o","f","i","x">>
SetupBranchLonger == <<"o","s","s","-","l","o","c","a","l","-","a","u","t","o","f","i","x","-","v","2">>
BranchDev == <<"d","e","v">>

\* the branches a repository can have, in the order `git branch` lists them
BranchOrder == <<BRANCH_NAME, BranchLonger, BranchMain,
                 SetupBranch, SetupBranchLonger, BranchDev>>

\* the output of `git branch`: one line per branch, the current one starred
RECURSIVE git_branch_lines(_, _, _)
git_branch_lines(branches, current, i) ==
    IF i > Len(BranchOrder) THEN <<>>
    ELSE LET name == BranchOrder[i]
             line == IF name \in branches
                     THEN (IF name = current THEN <<"*", " ">> ELSE <<" ", " ">>)
                          \o name \o <<"\n">>
                     ELSE <<>>
         IN  line \o git_branch_lines(branches, current, i + 1)

git_branch_output(git) == git_branch_lines(git.branches, git.branch, 1)

\* what `git merge` prints: nothing to merge, a merge commit made, or a
\* conflict
MergeUpToDate == <<"A","l","r","e","a","d","y"," ","u","p"," ","t","o"," ","d","a","t","e",".">>
MergeMade == <<"M","e","r","g","e"," ","m","a","d","e"," ","b","y"," ","t","h","e"," ","o","r","t"," ","s","t","r","a","t","e","g","y",".">>
MergeConflicts ==
    { <<"C","O","N","F","L","I","C","T"," ","(","c","o","n","t","e","n","t",")",":"," ","M","e","r","g","e"," ","c","o","n","f","l","i","c","t"," ","i","n"," ","m",".","p","y","\n","A","u","t","o","m","a","t","i","c"," ","m","e","r","g","e"," ","f","a","i","l","e","d",";"," ","f","i","x"," ","c","o","n","f","l","i","c","t","s"," ","a","n","d"," ","t","h","e","n"," ","c","o","m","m","i","t"," ","t","h","e"," ","r","e","s","u","l","t",".">>,
      <<"C","O","N","F","L","I","C","T"," ","(","m","o","d","i","f","y","/","d","e","l","e","t","e",")",":"," ","m",".","p","y"," ","d","e","l","e","t","e","d"," ","i","n"," ","H","E","A","D","\n","A","u","t","o","m","a","t","i","c"," ","m","e","r","g","e"," ","f","a","i","l","e","d",";"," ","f","i","x"," ","c","o","n","f","l","i","c","t","s"," ","a","n","d"," ","t","h","e","n"," ","c","o","m","m","i","t"," ","t","h","e"," ","r","e","s","u","l","t",".">> }
MergeOutputs == {MergeUpToDate, MergeMade, TextTimedOut} \cup MergeConflicts

TextConflict == <<"c","o","n","f","l","i","c","t">>

\* if "conflict" in merge_result.lower()
merge_conflict_never(merge_result) == FALSE

merge_conflict(merge_result) == contains(lower(merge_result), TextConflict)

\* git merge: run returns what the command printed
git_merge(git, merge_result) == [git EXCEPT !.merges = Append(@, merge_result)]

\* sys.exit(1)
git_exit(git) == [git EXCEPT !.exited = TRUE]

\* git_setup, lines 510-517: away from main, checkout main and merge the
\* branch the run started on
git_setup_premerge(git, merge_result) ==
    IF git.branch # BranchMain
    THEN LET merged == git_merge([git EXCEPT !.branch = BranchMain], merge_result)
         IN  IF merge_conflict(merge_result) THEN git_exit(merged) ELSE merged
    ELSE git

\* git_setup, lines 518-522: `branch not in branches` is a substring test
\* on the output of `git branch`; checkout of a branch that does not exist
\* fails, run returns the failure as text and the working tree stays put
git_setup_checkout(git, branch) ==
    IF ~contains(git_branch_output(git), branch)
    THEN [git EXCEPT !.branches = @ \cup {branch}, !.branch = branch,
                     !.created = TRUE]
    ELSE IF branch \in git.branches
         THEN [git EXCEPT !.branch = branch]
         ELSE git

\* git_setup, lines 523-526: merge main into the branch
git_setup_merge_main(git, merge_result) ==
    LET merged == git_merge(git, merge_result)
    IN  IF merge_conflict(merge_result) THEN git_exit(merged) ELSE merged

\* git_setup(branch): merge1 and merge2 are what its two merges print
git_setup(git, branch, merge1, merge2) ==
    LET pre == git_setup_premerge(git, merge1)
    IN  IF pre.exited THEN pre
        ELSE git_setup_merge_main(git_setup_checkout(pre, branch), merge2)

\* while iteration < max_retries
agent_loop_continues_inclusive(iteration, max_retries) == iteration <= max_retries

agent_loop_continues(iteration, max_retries) == iteration < max_retries

\* if iteration >= max_retries (after the loop)
retries_exceeded(iteration, max_retries) == iteration >= max_retries

InitFederationAgent ==
    [pc |-> "start",
     agent_loop |-> "not_called",
     max_retries |-> 0,
     iteration |-> 0,
     loop_history |-> <<>>,
     last_error_hash |-> NoHash,
     build_out |-> <<>>,
     log |-> <<>>,
     error_context |-> <<>>,
     timed_out |-> FALSE,
     not_started |-> FALSE,
     script_written |-> FALSE,
     untested_fix |-> FALSE,
     failures |-> <<>>,
     builds |-> 0,
     llm_requests |-> 0,
     commits |-> 0,
     git |-> [branch |-> BranchMain, branches |-> {BranchMain},
              merges |-> <<>>, created |-> FALSE, exited |-> FALSE],
     printed |-> {},
     exit_code |-> -1]

(***************************************************************************)
(* nymya-core/autofix.py                                                   *)
(***************************************************************************)
MaxCount == 3        \* builds and commits are counted up to this many

BUILD_SCRIPT == "./compile.sh"
FILES_TO_CHECK == <<"Makefile", "build.sh", "Dockerfile.x86_64", "Dockerfile.arm64">>
AutofixFiles == {FILES_TO_CHECK[i] : i \in 1..Len(FILES_TO_CHECK)} \cup {BUILD_SCRIPT}

\* setup_git_branch: `BRANCH_NAME not in branches` is a substring test on the
\* output of `git branch`; checkout -b creates the branch from HEAD, checkout
\* of a branch that does not exist fails, and a failing git command is
\* sys.exit(1), which the result records as exited.
setup_git_branch(git) ==
    IF ~git.ok THEN [git EXCEPT !.exited = TRUE]
    ELSE IF ~contains(git_branch_output(git), BRANCH_NAME)
         THEN [git EXCEPT !.branches = @ \cup {BRANCH_NAME}, !.branch = BRANCH_NAME]
         ELSE IF BRANCH_NAME \in git.branches
              THEN [git EXCEPT !.branch = BRANCH_NAME]
              ELSE [git EXCEPT !.exited = TRUE]

\* counters saturate at MaxCount
count_up(n) == IF n < MaxCount THEN n + 1 ELSE n

\* git add <file>
x_git_add(git, files, name) == [git EXCEPT !.index[name] = files[name]]

\* git commit -m: with nothing staged the command fails, and
\* run_git_command(fail_on_error=True) ends the process with status 1
x_git_commit(git) ==
    IF git.index = git.head
    THEN [git EXCEPT !.exited = TRUE]
    ELSE [git EXCEPT !.head = git.index, !.commits = count_up(@)]

\* error_file_to_fix: the first file of FILES_TO_CHECK that exists
RECURSIVE first_existing(_, _)
first_existing(files, i) ==
    IF i > Len(FILES_TO_CHECK) THEN "None"
    ELSE IF files[FILES_TO_CHECK[i]] # NoFile THEN FILES_TO_CHECK[i]
    ELSE first_existing(files, i + 1)

\* code_lang of main's parser, for each file of FILES_TO_CHECK
code_lang(name) ==
    CASE name = "Makefile" -> "makefile"
      [] name = "build.sh" -> "sh"
      [] name = "Dockerfile.x86_64" -> "x86_64"
      [] name = "Dockerfile.arm64" -> "arm64"

NoResponse == [fence |-> "None", code |-> ""]

\* call_gemini_api's results for a target: None, or text with a code block
\* fenced as the parser expects, or text without such a block
GeminiResponses(name) ==
    {NoResponse, [fence |-> "", code |-> ""]}
        \cup {[fence |-> code_lang(name), code |-> c] : c \in Contents}

\* the sets of existing files the model starts from
FileSets ==
    { {BUILD_SCRIPT, "Makefile"}, {BUILD_SCRIPT, "build.sh", "Dockerfile.arm64"},
      {BUILD_SCRIPT}, {"Makefile"}, {} }

\* what the user can type at input("Apply this fix to ... and commit? (y/n): ")
Answers == {<<"y">>, <<"Y">>, <<"n">>, <<"N">>, <<"y","e","s">>, <<>>}

\* no confirmation was asked for yet
NoAnswer == <<"<none>">>

\* with --yes-to-all the code sets confirmation = 'y' and input() is not called
confirmations(yes_to_all) == IF yes_to_all THEN {<<"y">>} ELSE Answers

confirmed_always(confirmation) == TRUE

\* if confirmation.lower() == 'y'
confirmed(confirmation) == lower(confirmation) = <<"y">>

InitAutofix ==
    [pc |-> "start",
     yes_to_all |-> FALSE,
     files |-> [n \in AutofixFiles |-> NoFile],
     git |-> [ok |-> TRUE, exited |-> FALSE, branch |-> BranchMain,
              branches |-> {BranchMain},
              index |-> [n \in AutofixFiles |-> NoFile],
              head |-> [n \in AutofixFiles |-> NoFile],
              commits |-> 0],
     is_success |-> FALSE,
     build |-> "none",
     error_file_to_fix |-> "None",
     fixed_code_md |-> NoResponse,
     confirmation |-> NoAnswer,
     builds |-> 0,
     op |-> "none",
     exit_code |-> -1]

(***************************************************************************)
(* nymya-core/man/fix_man.py                                               *)
(***************************************************************************)
\* the man pages, in the order of sorted(glob.glob("*.1"))
PageOrder == << <<"a",".","1">>, <<"b",".","1">> >>
Pages == {PageOrder[i] : i \in 1..Len(PageOrder)}
PageFiles == Pages \cup {Bak(p) : p \in Pages}

NoPage == <<"<absent>">>
TextTH == <<".","T","H">>
TextSH == <<".","S","H">>

Whitespace == {" ", "\n"}
\* the backquote character, written by name
BQ == "backquote"
FenceGroff == <<BQ, BQ, BQ, "g","r","o","f","f">>
FenceEnd == <<BQ, BQ, BQ>>

\* a response that wraps text in a groff code block
fenced(text) == FenceGroff \o <<"\n">> \o text \o <<"\n">> \o FenceEnd

\* str.startswith
startswith(text, prefix) ==
    Len(text) >= Len(prefix) /\ SubSeq(text, 1, Len(prefix)) = prefix

\* str.lstrip(chars): chars is a set of characters
RECURSIVE lstrip(_, _)
lstrip(text, chars) ==
    IF text # <<>> /\ Head(text) \in chars THEN lstrip(Tail(text), chars) ELSE text

\* str.strip()
strip(text) == rstrip(lstrip(text, Whitespace), Whitespace)

sanitize_model_output(raw_out) ==
    IF startswith(raw_out, FenceGroff)
    THEN strip(rstrip(lstrip(strip(raw_out), chars_of(FenceGroff)),
                      chars_of(FenceEnd)))
    ELSE raw_out

\* replace_th_date and replace_see_also return their first argument
replace_th_date(polished) == polished
replace_see_also(polished) == polished

\* backup_file(filepath): its body is `pass`
backup_file(fs, filepath) == fs

\* the texts call_gemini_api can return
ManResponses == {TextTH, TextSH, fenced(TextTH), fenced(TextSH)}

\* time.sleep(60) between two files
ManDelay == 60

\* the branches the working tree can be on when fix_man.py starts
FixManBranches == {BranchMain, BRANCH_NAME}

InitFixMan ==
    [pc |-> "start",
     manpages |-> <<>>,
     idx |-> 0,
     files |-> [n \in PageFiles |-> NoPage],
     original |-> [n \in PageFiles |-> NoPage],
     git |-> [branch |-> BranchMain,
              index |-> [n \in PageFiles |-> NoPage],
              head |-> [n \in PageFiles |-> NoPage],
              committed_on |-> {}],
     file_changed |-> FALSE,
     waited |-> FALSE,
     requests |-> 0,
     since_request |-> 0,
     op |-> "none",
     exit_code |-> -1]

(***************************************************************************)
(* nymya-core/nymya_man_and_build_autofix.py.  A text is the sequence of   *)
(* its lines (splitlines), a line a sequence of characters.                *)
(***************************************************************************)
API_DELAY_SECONDS == 60
MaxCFiles == 2       \* C files that get_c_files finds

COMMON_BUILD_PKGS == <<"b","u","i","l","d","-","e","s","s","e","n","t","i","a","l"," ","f","a","k","e","r","o","o","t"," ","d","p","k","g","-","d","e","v"," ","d","e","b","h","e","l","p","e","r"," ","l","i","b","n","c","u","r","s","e","s","5","-","d","e","v"," ","b","c"," ","f","l","e","x"," ","b","i","s","o","n"," ","l","i","b","s","s","l","-","d","e","v">>

NoText == << <<"<absent>">> >>

LineSetE == <<"s","e","t"," ","-","e">>
TextAptGetInstall == <<"a","p","t","-","g","e","t"," ","i","n","s","t","a","l","l">>
TextPacman == <<"p","a","c","m","a","n"," ","-","S">>
TextYumInstall == <<"y","u","m"," ","i","n","s","t","a","l","l">>
TextRpiHeaders == <<"l","i","n","u","x","-","h","e","a","d","e","r","s","-","r","p","i","-","v","8">>
TextFrom == <<"f","r","o","m">>

\* "needle in txt" for a needle without a line break
text_contains(txt, needle) == \E i \in 1..Len(txt) : contains(txt[i], needle)

\* the bootstrap prefix of attempt_fix_compile_sh
BootstrapPrefix ==
    << <<"e","c","h","o"," ","'","B","o","o","t","s","t","r","a","p","p","i","n","g"," ","b","u","i","l","d"," ","d","e","p","s"," ","(","m","a","y"," ","r","e","q","u","i","r","e"," ","s","u","d","o",")","'">>,
       <<"i","f"," ","c","o","m","m","a","n","d"," ","-","v"," ","a","p","t","-","g","e","t"," ",">","/","d","e","v","/","n","u","l","l"," ","2",">","&","1",";"," ","t","h","e","n">>,
       <<" "," ","a","p","t","-","g","e","t"," ","u","p","d","a","t","e"," ","|","|"," ","t","r","u","e">>,
       <<" "," ","a","p","t","-","g","e","t"," ","i","n","s","t","a","l","l"," ","-","y"," ">> \o COMMON_BUILD_PKGS \o <<" ","|","|"," ","t","r","u","e">>,
       <<"f","i">>,
       <<>> >>

\* attempt_fix_compile_sh: the text it writes, txt itself when nothing
\* applies
attempt_fix_compile_sh(txt) ==
    LET head5 == SubSeq(txt, 1, IF Len(txt) < 5 THEN Len(txt) ELSE 5)
        with_set_e == IF \A i \in 1..Len(head5) : head5[i] # LineSetE
                      THEN <<LineSetE>> \o txt ELSE txt
    IN  IF /\ ~text_contains(txt, TextAptGetInstall)
           /\ ~text_contains(txt, TextPacman)
           /\ ~text_contains(txt, TextYumInstall)
        THEN BootstrapPrefix \o with_set_e
        ELSE with_set_e

\* the line attempt_fix_dockerfile puts in place of a line that installs
\* linux-headers-rpi-v8
comment_out(line) ==
    IF contains(line, TextRpiHeaders)
    THEN <<"#"," ">> \o line \o <<" "," ","#"," ","R","e","m","o","v","e","d"," ","b","y"," ","a","u","t","o","f","i","x"," ","d","u","e"," ","t","o"," ","p","a","c","k","a","g","e"," ","n","o","t"," ","f","o","u","n","d">>
    ELSE line

RunLine ==
    <<"R","U","N"," ","a","p","t","-","g","e","t"," ","u","p","d","a","t","e"," ","&","&"," ","a","p","t","-","g","e","t"," ","i","n","s","t","a","l","l"," ","-","y"," ">> \o COMMON_BUILD_PKGS \o <<" ","&","&"," ","r","m"," ","-","r","f"," ","/","v","a","r","/","l","i","b","/","a","p","t","/","l","i","s","t","s","/","*">>

\* insert_idx: one past the first line that starts with FROM, else 0
RECURSIVE insert_index(_, _)
insert_index(lines, i) ==
    IF i > Len(lines) THEN 0
    ELSE IF startswith(lower(strip(lines[i])), TextFrom) THEN i
    ELSE insert_index(lines, i + 1)

\* attempt_fix_dockerfile: the text it writes, txt itself when nothing
\* applies
attempt_fix_dockerfile(txt) ==
    LET new_lines == [i \in 1..Len(txt) |-> comment_out(txt[i])]
        at == insert_index(new_lines, 1)
    IN  IF /\ ~text_contains(new_lines, TextAptGetInstall)
           /\ ~text_contains(new_lines, TextYumInstall)
        THEN SubSeq(new_lines, 1, at) \o <<RunLine>>
                 \o SubSeq(new_lines, at + 1, Len(new_lines))
        ELSE new_lines

\* `changed` of attempt_fix_compile_sh; a missing compile.sh returns None
\* before anything is read
compile_sh_changed(txt) ==
    /\ txt # NoText
    /\ \/ \A i \in 1..(IF Len(txt) < 5 THEN Len(txt) ELSE 5) : txt[i] # LineSetE
       \/ /\ ~text_contains(txt, TextAptGetInstall)
          /\ ~text_contains(txt, TextPacman)
          /\ ~text_contains(txt, TextYumInstall)

\* `changed` of attempt_fix_dockerfile; a missing Dockerfile returns None
dockerfile_changed(txt) ==
    /\ txt # NoText
    /\ \/ text_contains(txt, TextRpiHeaders)
       \/ LET new_lines == [i \in 1..Len(txt) |-> comment_out(txt[i])]
          IN  /\ ~text_contains(new_lines, TextAptGetInstall)
              /\ ~text_contains(new_lines, TextYumInstall)

\* if changed: backup.write_text(txt); path.write_text(new_txt)
write_fix_backup_last(files, name, changed, new_txt) ==
    IF changed
    THEN [files EXCEPT ![name] = new_txt, ![name \o BakSuffix] = new_txt]
    ELSE files

write_fix(files, name, changed, new_txt) ==
    IF changed
    THEN [files EXCEPT ![name \o BakSuffix] = files[name], ![name] = new_txt]
    ELSE files

\* the files of the repository that main reads and writes
CompileSh == <<"c","o","m","p","i","l","e",".","s","h">>
DockerfileArm == <<"D","o","c","k","e","r","f","i","l","e",".","a","r","m","6","4">>
ManPageOrder == << <<"m","a","n","/","x",".","1">>, <<"m","a","n","/","y",".","1">>, <<"m","a","n","/","z",".","1">> >>
NmFiles ==
    {CompileSh, CompileSh \o BakSuffix, DockerfileArm, DockerfileArm \o BakSuffix}
        \cup {ManPageOrder[i] : i \in 1..Len(ManPageOrder)}

\* what compile.sh and Dockerfile.arm64 can hold when a run starts
CompileTexts ==
    { << <<"m","a","k","e">> >>,
      << <<"#","!","/","b","i","n","/","b","a","s","h">>, LineSetE, <<"m","a","k","e">> >>,
      << LineSetE, <<"a","p","t","-","g","e","t"," ","i","n","s","t","a","l","l"," ","-","y"," ","g","c","c">>, <<"m","a","k","e">> >> }
DockerTexts ==
    { << <<"F","R","O","M"," ","d","e","b","i","a","n">>, <<"R","U","N"," ","m","a","k","e">> >>,
      << <<"F","R","O","M"," ","d","e","b","i","a","n">>, <<"R","U","N"," ","a","p","t","-","g","e","t"," ","i","n","s","t","a","l","l"," ","-","y"," ","l","i","n","u","x","-","h","e","a","d","e","r","s","-","r","p","i","-","v","8">>, <<"R","U","N"," ","m","a","k","e">> >>,
      << <<"F","R","O","M"," ","d","e","b","i","a","n">>, <<"R","U","N"," ","a","p","t","-","g","e","t"," ","i","n","s","t","a","l","l"," ","-","y"," ","g","c","c">> >> }

\* what the backend writes for a man page
ManTexts == { <<TextTH>>, <<TextSH>> }

\* git_checkout_or_create_branch(repo, branch): rev-parse gives the current
\* branch; show-ref --verify tests the exact ref; checkout or checkout -b
git_checkout_or_create_branch(git, branch) ==
    IF git.branch = branch THEN git
    ELSE IF branch \in git.branches THEN [git EXCEPT !.branch = branch]
    ELSE [git EXCEPT !.branch = branch, !.branches = @ \cup {branch}]

\* run(cmd, check): subprocess.run raises CalledProcessError when check is
\* set and the command returns non-zero
run_raises_unchecked(check, returned_zero) == ~returned_zero

run_raises(check, returned_zero) == check /\ ~returned_zero

\* git_commit_all: git add -A; git commit -m, both with check=True: with
\* nothing to commit the commit returns non-zero
git_commit_all(git, files) ==
    IF run_raises(TRUE, git.head # files) THEN [git EXCEPT !.raised = TRUE]
    ELSE [git EXCEPT !.head = files, !.commits = count_up(@),
                     !.committed_on = @ \cup {git.branch}]

\* git_push_branch: push -u origin branch with check=False; the result is
\* whether git returned 0 (accepted: the remote took the push)
git_push_branch(git, branch, accepted) ==
    LET returned_zero == git.remote /\ branch \in git.branches /\ accepted
    IN  IF run_raises(FALSE, returned_zero) THEN [git EXCEPT !.raised = TRUE]
        ELSE [git EXCEPT !.pushed = IF returned_zero THEN @ \cup {branch} ELSE @,
                         !.push_success = returned_zero]

MaxFixes == 4        \* calls of the heuristic fixers in a row

\* no fixer was called yet (fix: the last call of a fixer, the files before
\* it, what it returned, the fixers that reported a fix before it, and the
\* number of calls so far)
NoFix ==
    [name |-> "none", returned |-> "none", pre |-> <<>>, already |-> {},
     calls |-> 0]

InitNymyaMan ==
    [pc |-> "start",
     fix |-> NoFix,
     no_docker |-> FALSE,
     c_files |-> <<>>,
     files |-> <<>>,          \* main has looked at no file yet
     git |-> [branch |-> BranchMain, branches |-> {BranchMain}, remote |-> FALSE,
              head |-> <<>>, commits |-> 0,
              committed_on |-> {}, pushed |-> {}, push_success |-> FALSE,
              raised |-> FALSE],
     compile_success |-> FALSE,
     docker_arm_success |-> TRUE,
     docker_x86_success |-> TRUE,
     builds |-> 0,
     requests |-> 0,
     since_request |-> 0,
     op |-> "none",
     exit_code |-> -1]

Init ==
    /\ nymya_agent = InitNymyaAgent
    /\ recorded = [p \in Paths |-> <<>>]
    /\ federation_agent = InitFederationAgent
    /\ autofix = InitAutofix
    /\ fix_man = InitFixMan
    /\ nymya_man = InitNymyaMan

Next ==
    \/ Scan \/ NextFileSkipped \/ NextFile \/ EndOfPass
    \/ NextChunk \/ ChunksDone
    \/ GenerateCodeRequest \/ ReturnSuggestion \/ ApplySuggestion
    \/ RunFileClean \/ RunFileError
    \/ ReturnAnalysisUnparsed \/ ReturnAnalysisNotObject \/ ReturnAnalysis
    \/ ApplyEdit \/ SkipEdit \/ EditsDone
    \/ LoopCheckOscillating \/ LoopCheckContinue

\* autonomous_edit_loop
Spec == Init /\ [][Next]_vars

(***************************************************************************)
(* federation_agent.py: the module's start-up checks, __main__ and         *)
(* agent_loop.  builds and llm_requests count the builds run and the       *)
(* requests made to the backend; printed holds the outcomes reported;      *)
(* untested_fix says that apply_llm_fix has written since the last build;  *)
(* failures holds the error contexts of the failing iterations, in order.  *)
(***************************************************************************)
fa == federation_agent

OthersFa == UNCHANGED <<nymya_agent, recorded, autofix, fix_man, nymya_man>>

\* module level: the RAM check (input "Continue anyway?") and the check
\* that the Ollama server answers; either can end the process with status 1
FaStartup ==
    /\ fa.pc = "start"
    /\ \E outcome \in {"ok", "low_ram_declined", "no_ollama"} :
         federation_agent' =
            IF outcome = "ok"
            THEN [fa EXCEPT !.pc = "main"]
            ELSE [fa EXCEPT !.pc = "exit", !.exit_code = 1]
    /\ OthersFa

\* __main__: the species permission, then agent_loop(task_description), which
\* runs with the default max_retries = MAX_LOOP_RETRIES; other callers of
\* agent_loop pass their own max_retries
FaMainDenied ==
    /\ fa.pc = "main"
    /\ federation_agent' = [fa EXCEPT !.pc = "exit", !.exit_code = 1]
    /\ OthersFa

FaMainAgentLoop ==
    /\ fa.pc = "main"
    /\ \E m \in {MAX_LOOP_RETRIES} \cup 0..MaxRetriesIn :
         federation_agent' = [fa EXCEPT
            !.pc = "loop_test",
            !.agent_loop = "running",
            !.max_retries = m,
            !.iteration = 0,
            !.loop_history = <<>>,
            !.last_error_hash = NoHash,
            !.failures = <<>>]
    /\ OthersFa

\* while iteration < max_retries: iteration += 1; Step 1 picks build_cmd
FaLoopBody ==
    /\ fa.pc = "loop_test"
    /\ agent_loop_continues(fa.iteration, fa.max_retries)
    /\ federation_agent' = [fa EXCEPT !.pc = "build", !.iteration = @ + 1]
    /\ OthersFa

FaLoopEnd ==
    /\ fa.pc = "loop_test"
    /\ ~agent_loop_continues(fa.iteration, fa.max_retries)
    /\ federation_agent' = [fa EXCEPT !.pc = "after_loop"]
    /\ OthersFa

\* Step 2: build_out = run(build_cmd); the command is `... 2>&1 | tee LOG`
FaRunBuild ==
    /\ fa.pc = "build"
    /\ \/ \E text \in BuildOutputs :
            federation_agent' = [fa EXCEPT
               !.pc = "check",
               !.build_out = run_result("completed", text),
               !.log = text,
               !.timed_out = FALSE,
               !.not_started = FALSE,
               !.untested_fix = FALSE,
               !.builds = @ + 1]
       \/ \E partial \in BuildOutputs \cup {<<>>} :
            federation_agent' = [fa EXCEPT
               !.pc = "check",
               !.build_out = run_result("timeout", <<>>),
               !.log = partial,
               !.timed_out = TRUE,
               !.not_started = FALSE,
               !.untested_fix = FALSE,
               !.builds = @ + 1]
       \/ \E text \in ExceptionTexts :
            federation_agent' = [fa EXCEPT
               !.pc = "check",
               !.build_out = run_result("exception", text),
               !.timed_out = FALSE,
               !.not_started = TRUE,
               !.untested_fix = FALSE,
               !.builds = @ + 1]
    /\ OthersFa

\* Step 3: no "error" and no "fatal" in the output: success, break
FaBuildSucceeded ==
    /\ fa.pc = "check"
    /\ build_succeeded(fa.build_out)
    /\ federation_agent' = [fa EXCEPT
           !.pc = "after_loop",
           !.printed = @ \cup {"success"}]
    /\ OthersFa

\* Step 4: error_context = tail_log(100); the repeated-failure bookkeeping
FaAnalyze ==
    /\ fa.pc = "check"
    /\ ~build_succeeded(fa.build_out)
    /\ LET error_context == fa.log
           error_hash == hash_text(error_context)
           history == detect_repeated(fa.loop_history, fa.last_error_hash, error_hash)
       IN  federation_agent' = [fa EXCEPT
               !.pc = "llm",
               !.error_context = error_context,
               !.loop_history = history,
               !.last_error_hash = error_hash,
               !.failures = Append(@, error_context),
               !.printed = IF history[error_hash] > 1
                           THEN @ \cup {"repeated"} ELSE @ \ {"repeated"}]
    /\ OthersFa

\* apply_llm_fix is reached when llm answered, and writes build_local.sh
\* when the error context holds "undefined reference to `main'"
apply_llm_fix_writes(answered, error_context) ==
    answered /\ contains(error_context, TextMainMarker)

\* fix_suggestion = llm([...]); apply_llm_fix(...); an exception of either
\* goes to fallback_search; then time.sleep(1).  apply_llm_fix writes at
\* most the head of build_local.sh; it does not use fix_suggestion, and
\* neither it nor agent_loop calls commit_changes, so commits stays as it is.
FaConsultLLM ==
    /\ fa.pc = "llm"
    /\ \E answered \in BOOLEAN :
         federation_agent' = [fa EXCEPT
            !.pc = "loop_test",
            !.llm_requests = @ + 1,
            !.script_written =
                IF apply_llm_fix_writes(answered, fa.error_context) THEN TRUE ELSE @,
            !.untested_fix =
                IF apply_llm_fix_writes(answered, fa.error_context) THEN TRUE ELSE @,
            !.printed = IF answered THEN @ \ {"fallback"} ELSE @ \cup {"fallback"}]
    /\ OthersFa

\* after the loop: if iteration >= max_retries: "Maximum retries exceeded"
FaAfterLoop ==
    /\ fa.pc = "after_loop"
    /\ federation_agent' = [fa EXCEPT
           !.pc = "exit",
           !.agent_loop = "returned",
           !.exit_code = 0,
           !.printed = IF retries_exceeded(fa.iteration, fa.max_retries)
                       THEN @ \cup {"exhausted"} ELSE @]
    /\ OthersFa

NextAgent ==
    \/ FaStartup \/ FaMainDenied \/ FaMainAgentLoop
    \/ FaLoopBody \/ FaLoopEnd \/ FaRunBuild
    \/ FaBuildSucceeded \/ FaAnalyze \/ FaConsultLLM \/ FaAfterLoop

SpecAgent == Init /\ [][NextAgent]_vars

(***************************************************************************)
(* A process that prepares the branch with git_setup() and then runs       *)
(* __main__ and agent_loop.  The action fixes the repository the call      *)
(* finds: the current branch, the branches that exist, and what the two    *)
(* merges print.  A merge can find something to merge only where the two   *)
(* sides can differ: merging main into a branch just created from it, or   *)
(* into the branch that was merged into main a moment ago, prints          *)
(* "Already up to date."                                                   *)
(***************************************************************************)
GitSetupCall ==
    /\ fa.pc = "start"
    /\ \E current \in {BranchMain, BranchDev, SetupBranch},
          others \in SUBSET {BranchDev, SetupBranch, SetupBranchLonger},
          merge1 \in MergeOutputs, merge2 \in MergeOutputs :
         LET git0 == [fa.git EXCEPT !.branch = current,
                                    !.branches = {BranchMain, current} \cup others]
             pre == git_setup_premerge(git0, merge1)
             checked == git_setup_checkout(pre, SetupBranch)
             diverged == /\ ~pre.exited
                         /\ checked.branch = SetupBranch
                         /\ ~checked.created
                         /\ current # SetupBranch
             git2 == git_setup(git0, SetupBranch, merge1, merge2)
         IN  /\ current = BranchMain => merge1 = MergeUpToDate
             /\ ~diverged => merge2 = MergeUpToDate
             /\ federation_agent' =
                  IF git2.exited
                  THEN [fa EXCEPT !.git = git2, !.pc = "exit", !.exit_code = 1]
                  ELSE [fa EXCEPT !.git = git2, !.pc = "main"]
    /\ OthersFa

NextGitSetup ==
    \/ GitSetupCall \/ FaMainDenied \/ FaMainAgentLoop
    \/ FaLoopBody \/ FaLoopEnd \/ FaRunBuild
    \/ FaBuildSucceeded \/ FaAnalyze \/ FaConsultLLM \/ FaAfterLoop

SpecGitSetup == Init /\ [][NextGitSetup]_vars

(***************************************************************************)
(* autofix.py: main, one action per step.  op is the last step taken.      *)
(***************************************************************************)
ax == autofix

OthersAx == UNCHANGED <<nymya_agent, recorded, federation_agent, fix_man, nymya_man>>

Exit(state, code, op) == [state EXCEPT !.pc = "exit", !.exit_code = code, !.op = op]

\* parse_args; api_key = get_api_key(): a missing key file is sys.exit(1).
\* The action also fixes what the run finds on disk and in the repository.
XStart ==
    /\ ax.pc = "start"
    /\ \E yes \in BOOLEAN, key \in BOOLEAN, present \in FileSets,
          repo \in BOOLEAN, others \in SUBSET {BRANCH_NAME, BranchLonger} :
         LET files == [n \in AutofixFiles |-> IF n \in present THEN "c0" ELSE NoFile]
             found == [ax EXCEPT
                         !.yes_to_all = yes,
                         !.files = files,
                         !.git = [@ EXCEPT !.ok = repo,
                                           !.branches = {BranchMain} \cup others,
                                           !.index = files, !.head = files]]
         IN  autofix' = IF key THEN [found EXCEPT !.pc = "setup_git", !.op = "get_api_key"]
                        ELSE Exit(found, 1, "get_api_key")
    /\ OthersAx

\* setup_git_branch()
XSetupGitBranch ==
    /\ ax.pc = "setup_git"
    /\ LET git2 == setup_git_branch(ax.git)
       IN  autofix' = IF git2.exited
                      THEN Exit([ax EXCEPT !.git = git2], 1, "setup_git_branch")
                      ELSE [ax EXCEPT !.pc = "initial", !.git = git2,
                                      !.op = "setup_git_branch"]
    /\ OthersAx

\* handle_initial_errors(args): the build script exists
XInitialPresent ==
    /\ ax.pc = "initial"
    /\ ax.files[BUILD_SCRIPT] # NoFile
    /\ autofix' = [ax EXCEPT !.pc = "build", !.op = "handle_initial_errors"]
    /\ OthersAx

\* ... or it does not: with the confirmation, write a starter script, git
\* add, git commit; without it, return False and main does sys.exit(1)
XInitialMissing ==
    /\ ax.pc = "initial"
    /\ ax.files[BUILD_SCRIPT] = NoFile
    /\ \E confirmation \in confirmations(ax.yes_to_all) :
         LET asked == [ax EXCEPT !.confirmation = confirmation]
         IN  autofix' =
              IF confirmed(confirmation)
              THEN LET files2 == [ax.files EXCEPT ![BUILD_SCRIPT] = "c0"]
                       git2 == x_git_commit(x_git_add(ax.git, files2, BUILD_SCRIPT))
                   IN  IF git2.exited
                       THEN Exit([asked EXCEPT !.files = files2, !.git = git2], 1,
                                 "handle_initial_errors")
                       ELSE [asked EXCEPT !.pc = "build", !.files = files2,
                                          !.git = git2, !.op = "handle_initial_errors"]
              ELSE Exit(asked, 1, "handle_initial_errors")
    /\ OthersAx

\* is_success, log_output = run_build(): return code 0, another return
\* code, FileNotFoundError ("Build command not found."), or an exception
\* run_build does not catch (PermissionError), which ends the process
XRunBuild ==
    /\ ax.pc = "build"
    /\ \E outcome \in {"succeeded", "failed", "not_started", "raised"} :
         autofix' =
            IF outcome = "raised"
            THEN Exit([ax EXCEPT !.build = outcome, !.is_success = FALSE,
                                 !.builds = count_up(@)], 1, "run_build")
            ELSE [ax EXCEPT !.pc = IF outcome = "succeeded" THEN "success"
                                                            ELSE "analyze",
                            !.build = outcome,
                            !.is_success = (outcome = "succeeded"),
                            !.builds = count_up(@),
                            !.op = "run_build"]
    /\ OthersAx

\* if is_success: break -- main returns and the process ends with status 0
XSuccess ==
    /\ ax.pc = "success"
    /\ autofix' = Exit(ax, 0, "success")
    /\ OthersAx

\* the choice of error_file_to_fix; none: break
XChooseFile ==
    /\ ax.pc = "analyze"
    /\ LET name == first_existing(ax.files, 1)
       IN  autofix' = IF name = "None"
                      THEN Exit([ax EXCEPT !.error_file_to_fix = name], 0, "no_file")
                      ELSE [ax EXCEPT !.pc = "call_api", !.error_file_to_fix = name,
                                      !.op = "choose_file"]
    /\ OthersAx

\* the rate-limit wait, then fixed_code_md = call_gemini_api(...); None: break
XCallGemini ==
    /\ ax.pc = "call_api"
    /\ \E response \in GeminiResponses(ax.error_file_to_fix) :
         autofix' = [ax EXCEPT !.pc = "parse", !.fixed_code_md = response,
                               !.op = "call_gemini_api"]
    /\ OthersAx

XNoFix ==
    /\ ax.pc = "parse"
    /\ ax.fixed_code_md = NoResponse
    /\ autofix' = Exit(ax, 0, "no_fix")
    /\ OthersAx

\* fixed_code_md.split('```' + code_lang)[1]: IndexError, sleep, next build
XParseFailed ==
    /\ ax.pc = "parse"
    /\ ax.fixed_code_md # NoResponse
    /\ ax.fixed_code_md.fence # code_lang(ax.error_file_to_fix)
    /\ autofix' = [ax EXCEPT !.pc = "build", !.fixed_code_md = NoResponse,
                             !.op = "parse_failed"]
    /\ OthersAx

\* the confirmation; 'y': write the file, git add, git commit, sleep, next
\* build; anything else: "Fix not applied", break
XApplyFix ==
    /\ ax.pc = "parse"
    /\ ax.fixed_code_md # NoResponse
    /\ ax.fixed_code_md.fence = code_lang(ax.error_file_to_fix)
    /\ \E confirmation \in confirmations(ax.yes_to_all) :
         LET asked == [ax EXCEPT !.confirmation = confirmation]
         IN  autofix' =
              IF confirmed(confirmation)
              THEN LET name == ax.error_file_to_fix
                       files2 == [ax.files EXCEPT ![name] = ax.fixed_code_md.code]
                       git2 == x_git_commit(x_git_add(ax.git, files2, name))
                       applied == [asked EXCEPT !.files = files2, !.git = git2,
                                                !.fixed_code_md = NoResponse]
                   IN  IF git2.exited
                       THEN Exit(applied, 1, "apply_fix")
                       ELSE [applied EXCEPT !.pc = "build", !.op = "apply_fix"]
              ELSE Exit([asked EXCEPT !.fixed_code_md = NoResponse], 0, "declined")
    /\ OthersAx

NextAutofix ==
    \/ XStart \/ XSetupGitBranch \/ XInitialPresent \/ XInitialMissing
    \/ XRunBuild \/ XSuccess \/ XChooseFile \/ XCallGemini
    \/ XNoFix \/ XParseFailed \/ XApplyFix

SpecAutofix == Init /\ [][NextAutofix]_vars

\* main is sequential code: whenever it has a next step it takes it
FairSpecAutofix == SpecAutofix /\ WF_vars(NextAutofix)

(***************************************************************************)
(* fix_man.py: main and rewrite_and_commit.  original holds the content    *)
(* every file had when the run started; op is the result of the last       *)
(* rewrite_and_commit.                                                     *)
(***************************************************************************)
fm == fix_man

OthersFm == UNCHANGED <<nymya_agent, recorded, federation_agent, autofix, nymya_man>>

\* main: load_gemini_key (a missing token file raises, an empty key returns),
\* genai.configure, manpages = sorted(glob.glob("*.1")).  The action also
\* fixes what the run finds on disk and in the repository.
FmStart ==
    /\ fm.pc = "start"
    /\ \E key \in {"missing", "empty", "ok"}, present \in SUBSET Pages,
          branch \in FixManBranches :
         LET files == [n \in PageFiles |-> IF n \in present THEN TextTH ELSE NoPage]
             found == [fm EXCEPT
                         !.files = files,
                         !.original = files,
                         !.git = [@ EXCEPT !.branch = branch,
                                           !.index = files, !.head = files]]
         IN  fix_man' =
               CASE key = "missing" ->
                      [found EXCEPT !.pc = "exit", !.exit_code = 1,
                                    !.op = "load_gemini_key"]
                 [] key = "empty" ->
                      [found EXCEPT !.pc = "exit", !.exit_code = 0,
                                    !.op = "load_gemini_key"]
                 [] key = "ok" ->
                      [found EXCEPT
                         !.pc = "loop",
                         !.manpages = SelectSeq(PageOrder, LAMBDA q : q \in present),
                         !.op = "glob"]
    /\ OthersFm

\* the result of rewrite_and_commit(filepath, ...) and the state it leaves:
\* read is whether read_file returned the content, raw_out is the backend's
\* text ("raised" when call_gemini_api raised), add and commit are whether
\* the git commands succeeded
rewrite_and_commit(state, filepath, read, raw_out, add, commit) ==
    IF ~read THEN [state EXCEPT !.file_changed = FALSE, !.op = "read_failed"]
    ELSE IF raw_out = <<"raised">>
    THEN [state EXCEPT !.file_changed = FALSE, !.requests = count_up(@),
                       !.since_request = 0, !.op = "api_failed"]
    ELSE
      LET original == state.files[filepath]
          polished == replace_see_also(replace_th_date(sanitize_model_output(raw_out)))
          asked == [state EXCEPT !.requests = count_up(@), !.since_request = 0]
      IN  IF polished = original
          THEN [asked EXCEPT !.file_changed = FALSE, !.op = "no_change"]
          ELSE
            LET files2 == write_file(backup_file(state.files, filepath),
                                     filepath, polished)
                written == [asked EXCEPT !.files = files2]
                staged == [written EXCEPT !.git.index[filepath] = files2[filepath]]
            IN  IF ~add
                THEN [written EXCEPT !.file_changed = FALSE, !.op = "add_failed"]
                ELSE IF ~commit
                THEN [staged EXCEPT !.file_changed = FALSE, !.op = "commit_failed"]
                ELSE [staged EXCEPT
                        !.git.head = staged.git.index,
                        !.git.committed_on = @ \cup {staged.git.branch},
                        !.file_changed = TRUE,
                        !.op = "committed"]

\* for idx, filepath in enumerate(manpages): rewrite_and_commit, then the
\* 60 second wait when a change was committed and a file is left.
\* since_request is the time the run has slept since its last backend
\* request, counted up to ManDelay: the only delay the code provides.
FmRewrite ==
    /\ fm.pc = "loop"
    /\ fm.manpages # <<>>
    /\ \E read \in BOOLEAN, raw_out \in ManResponses \cup {<<"raised">>},
          add \in BOOLEAN, commit \in BOOLEAN :
         LET filepath == Head(fm.manpages)
             done == rewrite_and_commit(fm, filepath, read, raw_out, add, commit)
             wait == Len(fm.manpages) > 1 /\ done.file_changed
         IN  fix_man' = [done EXCEPT
                           !.manpages = Tail(@),
                           !.idx = @ + 1,
                           !.waited = wait,
                           !.since_request = IF wait THEN ManDelay ELSE @]
    /\ OthersFm

\* the loop is exhausted: main returns
FmDone ==
    /\ fm.pc = "loop"
    /\ fm.manpages = <<>>
    /\ fix_man' = [fm EXCEPT !.pc = "exit", !.exit_code = 0, !.op = "done"]
    /\ OthersFm

NextFixMan == FmStart \/ FmRewrite \/ FmDone

SpecFixMan == Init /\ [][NextFixMan]_vars

(***************************************************************************)
(* nymya_man_and_build_autofix.py: main, one action per step.  op is the   *)
(* last step taken.  An exception that nothing catches ends the process    *)
(* with status 1.                                                          *)
(***************************************************************************)
nm == nymya_man

OthersNm == UNCHANGED <<nymya_agent, recorded, federation_agent, autofix, fix_man>>

Raise(state, op) == [state EXCEPT !.pc = "exit", !.exit_code = 1, !.op = op]

\* parse_args; no API key: return 1; configure_gemini;
\* git_checkout_or_create_branch(repo, "gemini-autofix"); get_c_files.
\* The action also fixes what the run finds on disk and in the repository.
NmStart ==
    /\ nm.pc = "start"
    /\ \E found \in {"no_key", "no_repo", "ok"},
          current \in {BranchMain, BRANCH_NAME, BranchDev},
          others \in SUBSET {BranchMain, BRANCH_NAME, BranchLonger},
          remote \in BOOLEAN, no_docker \in BOOLEAN, n \in 0..MaxCFiles,
          compile \in CompileTexts \cup {NoText},
          docker \in DockerTexts \cup {NoText},
          man \in ManTexts \cup {NoText} :
         LET files == [f \in NmFiles |->
                         CASE f = CompileSh -> compile
                           [] f = DockerfileArm -> docker
                           [] f = ManPageOrder[1] -> man
                           [] OTHER -> NoText]
             git0 == [nm.git EXCEPT !.branch = current,
                                    !.branches = {current} \cup others,
                                    !.remote = remote,
                                    !.head = files]
             repo == [nm EXCEPT !.files = files, !.git = git0,
                                !.no_docker = no_docker]
         IN  nymya_man' =
               CASE found = "no_key" ->
                      [repo EXCEPT !.pc = "exit", !.exit_code = 1, !.op = "no_key"]
                 [] found = "no_repo" ->
                      Raise([repo EXCEPT !.git.raised = TRUE], "git_current_branch")
                 [] found = "ok" ->
                      [repo EXCEPT
                         !.pc = "man_pages",
                         !.git = git_checkout_or_create_branch(git0, BRANCH_NAME),
                         !.c_files = SubSeq(ManPageOrder, 1, n),
                         !.op = "get_c_files"]
    /\ OthersNm

\* for cfile in c_files: call_gemini_generate (an exception: continue);
\* write_man_file; git_commit_all; time.sleep(API_DELAY_SECONDS)
NmManPage ==
    /\ nm.pc = "man_pages"
    /\ nm.c_files # <<>>
    /\ \E man_content \in ManTexts \cup {NoText} :
         LET man_path == Head(nm.c_files)
             asked == [nm EXCEPT !.requests = count_up(@), !.since_request = 0,
                                 !.c_files = Tail(@)]
             files2 == [nm.files EXCEPT ![man_path] = man_content]
             git2 == git_commit_all(nm.git, files2)
         IN  nymya_man' =
               IF man_content = NoText
               THEN [asked EXCEPT !.op = "api_failed"]
               ELSE IF git2.raised
               THEN Raise([asked EXCEPT !.files = files2, !.git = git2],
                          "git_commit_all")
               ELSE [asked EXCEPT !.files = files2, !.git = git2,
                                  !.since_request = API_DELAY_SECONDS,
                                  !.op = "man_page"]
    /\ OthersNm

NmManPagesDone ==
    /\ nm.pc = "man_pages"
    /\ nm.c_files = <<>>
    /\ nymya_man' = [nm EXCEPT !.pc = "compile", !.op = "man_pages_done"]
    /\ OthersNm

\* run_compile_sh; on failure attempt_fix_compile_sh, and with a fix
\* git_commit_all and run_compile_sh again
NmCompile ==
    /\ nm.pc = "compile"
    /\ \E first \in BOOLEAN, retry \in BOOLEAN :
         LET txt == nm.files[CompileSh]
             files2 == write_fix(nm.files, CompileSh, compile_sh_changed(txt),
                                 attempt_fix_compile_sh(txt))
             git2 == git_commit_all(nm.git, files2)
             next == [nm EXCEPT !.pc = "docker"]
         IN  /\ (txt = NoText \/ first) => ~retry
             /\ txt = NoText => ~first
             /\ files2 = nm.files => ~retry
             /\ nymya_man' =
                  IF txt = NoText
                  THEN [next EXCEPT !.compile_success = FALSE, !.op = "no_compile_sh"]
                  ELSE IF first
                  THEN [next EXCEPT !.compile_success = TRUE,
                                    !.builds = count_up(@), !.op = "compiled"]
                  ELSE IF files2 = nm.files
                  THEN [next EXCEPT !.compile_success = FALSE,
                                    !.builds = count_up(@), !.op = "no_fix"]
                  ELSE IF git2.raised
                  THEN Raise([nm EXCEPT !.files = files2, !.git = git2,
                                        !.builds = count_up(@)], "git_commit_all")
                  ELSE [next EXCEPT !.files = files2, !.git = git2,
                                    !.compile_success = retry,
                                    !.builds = count_up(count_up(@)),
                                    !.op = "fixed_compile_sh"]
    /\ OthersNm

\* unless --no-docker: build_dockerfile for Dockerfile.arm64, on failure
\* attempt_fix_dockerfile, and with a fix git_commit_all and the build
\* again; then build_dockerfile for Dockerfile.x86_64
NmDocker ==
    /\ nm.pc = "docker"
    /\ \E first \in BOOLEAN, retry \in BOOLEAN, x86 \in BOOLEAN :
         LET txt == nm.files[DockerfileArm]
             files2 == write_fix(nm.files, DockerfileArm, dockerfile_changed(txt),
                                 attempt_fix_dockerfile(txt))
             git2 == git_commit_all(nm.git, files2)
             next == [nm EXCEPT !.pc = "finish", !.docker_x86_success = x86]
         IN  /\ nm.no_docker => (~first /\ ~retry /\ x86)
             /\ (txt = NoText \/ first) => ~retry
             /\ txt = NoText => ~first
             /\ files2 = nm.files => ~retry
             /\ nymya_man' =
                  IF nm.no_docker
                  THEN [next EXCEPT !.op = "no_docker"]
                  ELSE IF txt = NoText
                  THEN [next EXCEPT !.docker_arm_success = FALSE,
                                    !.op = "no_dockerfile"]
                  ELSE IF first
                  THEN [next EXCEPT !.docker_arm_success = TRUE, !.op = "docker_built"]
                  ELSE IF files2 = nm.files
                  THEN [next EXCEPT !.docker_arm_success = FALSE, !.op = "no_fix"]
                  ELSE IF git2.raised
                  THEN Raise([nm EXCEPT !.files = files2, !.git = git2],
                             "git_commit_all")
                  ELSE [next EXCEPT !.files = files2, !.git = git2,
                                    !.docker_arm_success = retry,
                                    !.op = "fixed_dockerfile"]
    /\ OthersNm

\* run(["git", "checkout", "main"], check=True);
\* push_success = git_push_branch(repo, "gemini-autofix"); return 0
NmFinish ==
    /\ nm.pc = "finish"
    /\ \E accepted \in BOOLEAN :
         LET on_main == [nm.git EXCEPT !.branch = BranchMain]
             git2 == git_push_branch(on_main, BRANCH_NAME, accepted)
         IN  /\ ~nm.git.remote => ~accepted
             /\ nymya_man' =
                  IF run_raises(TRUE, BranchMain \in nm.git.branches)
                  THEN Raise([nm EXCEPT !.git.raised = TRUE], "checkout_main")
                  ELSE IF git2.raised
                  THEN Raise([nm EXCEPT !.git = git2], "git_push_branch")
                  ELSE [nm EXCEPT !.pc = "exit", !.git = git2, !.exit_code = 0,
                                  !.op = "finish"]
    /\ OthersNm

NextNymyaMan ==
    \/ NmStart \/ NmManPage \/ NmManPagesDone
    \/ NmCompile \/ NmDocker \/ NmFinish

SpecNymyaMan == Init /\ [][NextNymyaMan]_vars

(***************************************************************************)
(* The heuristic fixers on their own: a repository with some compile.sh    *)
(* and Dockerfile.arm64, then any sequence of calls of                     *)
(* attempt_fix_compile_sh and attempt_fix_dockerfile.                      *)
(***************************************************************************)
FixerSetup ==
    /\ nm.pc = "start"
    /\ \E compile \in CompileTexts \cup {NoText},
          docker \in DockerTexts \cup {NoText} :
         nymya_man' = [nm EXCEPT
            !.pc = "fixers",
            !.files = [f \in NmFiles |->
                         CASE f = CompileSh -> compile
                           [] f = DockerfileArm -> docker
                           [] OTHER -> NoText],
            !.op = "setup"]
    /\ OthersNm

\* one call of a fixer: what it writes, what it returns
FixerCall(name, path, changed, new_txt) ==
    [nm EXCEPT
       !.files = write_fix(@, path, changed, new_txt),
       !.fix = [name |-> name,
                returned |-> IF changed THEN "fixed" ELSE "None",
                pre |-> nm.files,
                already |-> nm.fix.already
                              \cup (IF nm.fix.returned = "fixed"
                                    THEN {nm.fix.name} ELSE {}),
                calls |-> nm.fix.calls + 1],
       !.op = name]

FixCompileShCall ==
    /\ nm.pc = "fixers"
    /\ nm.fix.calls < MaxFixes
    /\ LET txt == nm.files[CompileSh]
       IN  nymya_man' = FixerCall("attempt_fix_compile_sh", CompileSh,
                                  compile_sh_changed(txt),
                                  attempt_fix_compile_sh(txt))
    /\ OthersNm

FixDockerfileCall ==
    /\ nm.pc = "fixers"
    /\ nm.fix.calls < MaxFixes
    /\ LET txt == nm.files[DockerfileArm]
       IN  nymya_man' = FixerCall("attempt_fix_dockerfile", DockerfileArm,
                                  dockerfile_changed(txt),
                                  attempt_fix_dockerfile(txt))
    /\ OthersNm

NextFixers == FixerSetup \/ FixCompileShCall \/ FixDockerfileCall

SpecFixers == Init /\ [][NextFixers]_vars

(***************************************************************************)
(* The failure window on its own: any sequence of record_error calls.      *)
(* recorded[p] is every error recorded for p, oldest first.                *)
(***************************************************************************)
RecordErrorCall ==
    \E p \in Paths, e \in Errors :
        /\ Len(recorded[p]) < MaxRecords
        /\ nymya_agent' = [na EXCEPT !.error_history = record_error(@, p, e)]
        /\ recorded' = [recorded EXCEPT ![p] = Append(@, e)]
        /\ UNCHANGED <<federation_agent, autofix, fix_man, nymya_man>>

NextWindow == RecordErrorCall

SpecWindow == Init /\ [][NextWindow]_vars

(***************************************************************************)
(* Backup and rollback on their own: any sequence of apply_change and      *)
(* rollback_changes_for_file calls.  op names the last call, pre is the    *)
(* file system before it, and prev_name, prev_path, prev_pre say the same  *)
(* of the call before it.                                                  *)
(***************************************************************************)
Call(name, file_path, agent) ==
    [name |-> name, path |-> file_path, commit |-> "", pre |-> agent.fs,
     prev_name |-> agent.op.name, prev_path |-> agent.op.path,
     prev_pre |-> IF "pre" \in DOMAIN agent.op THEN agent.op.pre ELSE agent.fs]

ApplyChangeCall ==
    \E p \in Paths, c \in Contents :
        /\ na.pc # "raised"
        /\ Len(na.change_log) < MaxApplies
        /\ exists(na.fs, p)
        /\ nymya_agent' = [na EXCEPT
              !.fs = apply_change_fs(@, p, c),
              !.change_log = apply_change_log(@, p),
              !.op = Call("apply_change", p, na)]
        /\ Others

RollbackForFileCall ==
    \E p \in Paths :
        /\ na.pc # "raised"
        /\ nymya_agent' = [na EXCEPT
              !.fs = rollback_changes_for_file(@, p),
              !.op = Call("rollback_changes_for_file", p, na)]
        /\ Others

\* scan_project(root) over a tree where the files of unreadable raise
\* PermissionError in read_file
ScanProjectCall ==
    \E unreadable \in SUBSET Paths :
        /\ nymya_agent' = [na EXCEPT
              !.project_files = scan_project(na.fs, unreadable),
              !.op = Call("scan_project", PathOrder[1], na)]
        /\ Others

\* handle_error_loop(file_path), for a path with or without a backup
HandleErrorLoopCall ==
    \E p \in Paths :
        /\ na.pc # "raised"
        /\ nymya_agent' = [handle_error_loop(na, p) EXCEPT
              !.op = Call("handle_error_loop", p, na)]
        /\ Others

\* rollback_changes(); an exception it raises ends the sequence of calls
RollbackChangesCall ==
    /\ na.pc # "raised"
    /\ LET done == rollback_changes(na.fs, na.change_log)
       IN  nymya_agent' = [na EXCEPT
              !.pc = IF done.raised THEN "raised" ELSE @,
              !.fs = done.fs,
              !.change_log = done.change_log,
              !.op = Call("rollback_changes", PathOrder[1], na)]
    /\ Others

NextRollback ==
    \/ ApplyChangeCall \/ RollbackForFileCall \/ HandleErrorLoopCall

SpecRollback == Init /\ [][NextRollback]_vars

\* Rolling everything back: rollback_changes() after any sequence of
\* apply_change and rollback_changes_for_file calls
NextRollbackAll == ApplyChangeCall \/ RollbackForFileCall \/ RollbackChangesCall

SpecRollbackAll == Init /\ [][NextRollbackAll]_vars

\* Scanning on its own: scan_project between changes of the files
NextScan == ApplyChangeCall \/ ScanProjectCall

SpecScan == Init /\ [][NextScan]_vars


(***************************************************************************)
(* Claims about nymya_agent.py                                             *)
(***************************************************************************)
AllEqual(errors) ==
    \A i, j \in 1..Len(errors) : errors[i] = errors[j]

LastRecorded(p, n) == SubSeq(recorded[p], Len(recorded[p]) - n + 1, Len(recorded[p]))

\* C1: after any sequence of record_error calls, is_error_loop(target) is
\* true exactly when at least 5 errors were recorded for the target and the
\* 5 most recent ones (the content of its window) are all equal -- so it is
\* false before the 5th record, and false after 4 identical errors and a
\* different one.
C1_ErrorLoopIffFiveIdentical ==
    \A p \in Paths :
        is_error_loop(nymya_agent.error_history, p)
            <=> (Len(recorded[p]) >= 5 /\ AllEqual(LastRecorded(p, 5)))

C1_Witness ==
    \E p \in Paths :
        /\ Len(recorded[p]) = 5
        /\ AllEqual(recorded[p])
        /\ is_error_loop(nymya_agent.error_history, p)

\* C2: once a path is in skip_files, no generate_code request and no
\* apply_change is made for that path.
C2_NoFixForSkippedPath ==
    nymya_agent.op.name \in {"generate_code", "apply_change"}
        => nymya_agent.op.path \notin nymya_agent.skip_files

\* C3: the loop guard is consulted before the fix proposal for a recorded
\* failure is requested: no error-analysis request is made for a target
\* whose window already holds 5 identical failures.
C3_GuardBeforeProposal ==
    (nymya_agent.op.name = "generate_code" /\ nymya_agent.gen.site = "error")
        => ~is_error_loop(nymya_agent.error_history, nymya_agent.path)

\* C10: one call of generate_code makes at most 3 backend requests, none
\* after a successful response, and exactly 3 when it returns without one.
C10_GenerateCodeBudget ==
    /\ nymya_agent.gen.requests <= 3
    /\ nymya_agent.gen.after_ok = 0
    /\ (nymya_agent.gen.status = "returned" /\ ~nymya_agent.gen.ok)
           => nymya_agent.gen.requests = 3
    /\ (nymya_agent.gen.status = "returned" /\ nymya_agent.gen.ok)
           => nymya_agent.gen.attempt = nymya_agent.gen.requests - 1

C10_Witness ==
    /\ nymya_agent.gen.status = "returned"
    /\ ~nymya_agent.gen.ok
    /\ nymya_agent.gen.requests = 3


C6_ExhaustedOnlyWithoutSuccess ==
    "exhausted" \in federation_agent.printed
        => "success" \notin federation_agent.printed

\* C8: success is never reported for an iteration whose build timed out.
C8_TimeoutIsFailure ==
    (federation_agent.pc = "after_loop" /\ "success" \in federation_agent.printed)
        => ~federation_agent.timed_out


(***************************************************************************)
(* Claims about nymya-core/autofix.py                                      *)
(***************************************************************************)
\* C4: the build-repair loop terminates: main reaches its end.
C4_LoopTerminates == <>(autofix.pc = "exit")

\* C7: the exit status is 0 if and only if a build succeeded.
C7_ExitZeroIffSuccess ==
    autofix.pc = "exit" => (autofix.exit_code = 0 <=> autofix.is_success)

\* C9: no fix proposal is requested for a build that could not be started.
C9_NoProposalForStartupError ==
    autofix.op = "call_gemini_api" => autofix.build # "not_started"

\* C11: when a call of generate_code returns with its retry budget
\* exhausted, the step in which the caller takes the result writes no file,
\* creates no backup and no change_log entry, makes no commit and records no
\* failure, and the loop goes on with the next chunk.
C11_ExhaustedProposalIsNoOp ==
    [][(/\ nymya_agent.pc = "generate_code"
        /\ nymya_agent.gen.status = "returned"
        /\ ~nymya_agent.gen.ok)
       => /\ nymya_agent'.pc = "chunk"
          /\ nymya_agent'.fs = nymya_agent.fs
          /\ nymya_agent'.change_log = nymya_agent.change_log
          /\ nymya_agent'.git = nymya_agent.git
          /\ nymya_agent'.error_history = nymya_agent.error_history
          /\ nymya_agent'.skip_files = nymya_agent.skip_files]_vars

C11_Witness ==
    /\ nymya_agent.op.name = "exhausted"
    /\ nymya_agent.pc = "chunk"
    /\ nymya_agent.change_log # <<>>

\* C12: a fix-backend call that fails does not end the run: after
\* call_gemini_api has returned no response, main is not at its end.
C12_FailedBackendNotFatal ==
    autofix.op = "no_fix" => autofix.pc # "exit"

\* C13: an iteration whose response holds no extractable code block counts
\* against the retry budget, so a run has only finitely many of them: from
\* some point on no response fails to parse.
C13_ParseFailureCountsAgainstBudget ==
    <>[](autofix.op # "parse_failed")

\* C14: applying a suggestion that equals the file's current content is a
\* no-op: no file is written, no backup and no change_log entry is created
\* and no commit is made.
C14_IdenticalContentIsNoOp ==
    [][(/\ nymya_agent.pc = "apply"
        /\ nymya_agent.suggestion = nymya_agent.fs[nymya_agent.path])
       => /\ nymya_agent'.fs = nymya_agent.fs
          /\ nymya_agent'.change_log = nymya_agent.change_log
          /\ nymya_agent'.git.head = nymya_agent.git.head]_vars

\* C15: committing a fix that left the working tree unchanged is a no-op:
\* no commit is created, the run is not ended, and main goes on to the next
\* build.
C15_EmptyCommitIsNoOp ==
    [][(/\ autofix.pc = "parse"
        /\ autofix.yes_to_all
        /\ autofix.fixed_code_md # NoResponse
        /\ autofix.fixed_code_md.fence = code_lang(autofix.error_file_to_fix)
        /\ autofix.fixed_code_md.code = autofix.files[autofix.error_file_to_fix])
       => /\ autofix'.pc = "build"
          /\ autofix'.git.head = autofix.git.head]_vars

\* C16: apply_change(path, c) followed by rollback_changes_for_file(path)
\* leaves the file with the content it had before apply_change, removes the
\* backup and touches no other file; a rollback_changes_for_file for a path
\* without a backup (a second rollback included) changes nothing.
C16_ApplyThenRollbackRestores ==
    nymya_agent.op.name = "rollback_changes_for_file" =>
        LET op == nymya_agent.op
            fs == nymya_agent.fs
        IN  /\ (op.prev_name = "apply_change" /\ op.prev_path = op.path)
                  => /\ fs[op.path] = op.prev_pre[op.path]
                     /\ fs[Bak(op.path)] = NoFile
                     /\ \A n \in FileNames \ {op.path, Bak(op.path)} :
                            fs[n] = op.prev_pre[n]
            /\ ~exists(op.pre, Bak(op.path)) => fs = op.pre
            /\ (op.prev_name = "rollback_changes_for_file" /\ op.prev_path = op.path)
                  => fs = op.pre

C16_Witness ==
    /\ nymya_agent.op.name = "rollback_changes_for_file"
    /\ nymya_agent.op.prev_name = "apply_change"
    /\ nymya_agent.op.prev_path = nymya_agent.op.path
    /\ nymya_agent.op.pre[nymya_agent.op.path]
          # nymya_agent.op.prev_pre[nymya_agent.op.path]
    /\ nymya_agent.op.prev_pre[Bak(nymya_agent.op.path)] # NoFile
    /\ nymya_agent.fs[nymya_agent.op.path]
          = nymya_agent.op.prev_pre[nymya_agent.op.path]


(***************************************************************************)
(* Claims about nymya-core/man/fix_man.py                                  *)
(***************************************************************************)
\* C17: every file whose content the loop has changed and not yet committed
\* has a backup that holds its content from before the edit.
C17_BackupForPendingEdit ==
    \A p \in Pages :
        (fix_man.files[p] # fix_man.original[p] /\ fix_man.files[p] # fix_man.git.head[p])
            => fix_man.files[Bak(p)] = fix_man.original[p]

\* C18: at every iteration boundary of main's loop (before the next file
\* is processed, and at the end) the index holds no staged change that is
\* not committed.
C18_NoStagedChangesAtBoundary ==
    fix_man.pc \in {"loop", "exit"} => fix_man.git.index = fix_man.git.head

\* C20: every commit of the loop is created on the integration branch,
\* never on the trunk.
C20_CommitsOffTrunk ==
    BranchMain \notin fix_man.git.committed_on

\* C19: a commit of autonomous_edit_loop contains exactly the path the
\* applied change names: no other file of the working tree enters it.
C19_CommitStagesOnlyChangedPath ==
    [][nymya_agent'.git.head # nymya_agent.git.head
       => \A n \in FileNames \ {nymya_agent'.op.path} :
             nymya_agent'.git.head[n] = nymya_agent.git.head[n]]_vars

(***************************************************************************)
(* The delay between backend requests (fix_man.py).                        *)
(***************************************************************************)
\* C21: when a run makes a backend request after an earlier one, at least
\* the minimum delay of 60 seconds has passed since the earlier request,
\* whatever that request's outcome was.
C21_MinimumDelayBetweenRequests ==
    [][(fix_man'.requests > fix_man.requests /\ fix_man.requests > 0)
          => fix_man.since_request >= ManDelay]_vars

(***************************************************************************)
(* One failed build, one fix, one successful build (agent_loop).           *)
(***************************************************************************)
\* C22: when the first build fails, the backend answers with a fix and the
\* second build succeeds, the loop ends in success after exactly 2 builds
\* with exactly one commit.
C22_OneFixOneCommit ==
    (/\ federation_agent.pc = "exit"
     /\ federation_agent.agent_loop = "returned"
     /\ federation_agent.builds = 2
     /\ federation_agent.llm_requests = 1
     /\ "fallback" \notin federation_agent.printed
     /\ ~federation_agent.timed_out
     /\ ~federation_agent.not_started)
        => (/\ "success" \in federation_agent.printed
            /\ federation_agent.commits = 1)

C24_EnsureBranchExact ==
    (federation_agent.pc # "start" /\ ~federation_agent.git.exited)
        => /\ federation_agent.git.branch = SetupBranch
           /\ SetupBranch \in federation_agent.git.branches

(***************************************************************************)
(* The end of main in nymya_man_and_build_autofix.py.                      *)
(***************************************************************************)
\* C25: when main has switched back to main and the push of gemini-autofix
\* fails because no remote is configured, main still returns 0, nothing is
\* raised, and the working tree is on main.
C25_PushFailureTolerated ==
    (nymya_man.op \in {"finish", "git_push_branch"} /\ ~nymya_man.git.remote)
        => /\ nymya_man.pc = "exit"
           /\ nymya_man.exit_code = 0
           /\ ~nymya_man.git.raised
           /\ ~nymya_man.git.push_success
           /\ nymya_man.git.branch = BranchMain

\* a run that committed a fix on gemini-autofix and could not push it
C25_Witness ==
    /\ nymya_man.op = "finish"
    /\ ~nymya_man.git.remote
    /\ nymya_man.git.commits > 0
    /\ BRANCH_NAME \in nymya_man.git.committed_on

(***************************************************************************)
(* The failure window and the skip list in autonomous_edit_loop.           *)
(***************************************************************************)
\* C26: a path's failure window is empty right after a run of the path
\* that produced no failure, and right after the path was added to
\* skip_files.
C26_WindowEmptiedOnSuccessOrSkip ==
    nymya_agent.op.name \in {"run_file_dynamic", "handle_error_loop"}
        => nymya_agent.error_history[nymya_agent.op.path] = <<>>

\* C27: handle_error_loop is never invoked for a path that is already in
\* skip_files, so a path is declared oscillating at most once in a run.
C27_SkippedAtMostOnce ==
    [][(nymya_agent.pc = "loop_check"
            /\ nymya_agent'.op.name = "handle_error_loop")
          => nymya_agent.path \notin nymya_agent.skip_files]_vars

\* C28: within an iteration a commit is created only after the run of the
\* target has completed and its failure has been recorded and analysed
\* (the loop is then applying the analysis' edits).
C28_NoCommitBeforeAnalysis ==
    [][nymya_agent'.git.head # nymya_agent.git.head
          => nymya_agent.pc = "edit_files"]_vars

\* C29: after any sequence of record_error calls a path's failure window
\* holds at most 5 entries, and they are the most recently recorded errors
\* of the path in the order they were recorded.
C29_WindowIsLastFive ==
    \A p \in Paths :
        LET n == IF Len(recorded[p]) < 5 THEN Len(recorded[p]) ELSE 5
        IN  /\ Len(nymya_agent.error_history[p]) <= 5
            /\ nymya_agent.error_history[p] = LastRecorded(p, n)

\* a 6th error was recorded and the oldest one, which differs from the one
\* that is now the oldest, is gone
C29_Witness ==
    \E p \in Paths :
        /\ Len(recorded[p]) = 6
        /\ recorded[p][1] # recorded[p][2]
        /\ Len(nymya_agent.error_history[p]) = 5
        /\ nymya_agent.error_history[p][1] = recorded[p][2]
        /\ nymya_agent.error_history[p][5] = recorded[p][6]

\* C30: skip_files only grows: a path that is in it is still in it after
\* every later operation of the loop.
C30_SkipFilesGrows ==
    [][nymya_agent.skip_files \subseteq nymya_agent'.skip_files]_vars

\* the loop went on working after a path was skipped
C30_Witness ==
    /\ nymya_agent.skip_files # {}
    /\ nymya_agent.op.name = "apply_change"

\* the step is one of the two confirmations of autofix.py, asked without
\* --yes-to-all: handle_initial_errors with the build script missing, or
\* main with a code block parsed from the response
AskedUser ==
    /\ ~ ax.yes_to_all
    /\ \/ ax.pc = "initial" /\ ax.files[BUILD_SCRIPT] = NoFile
       \/ /\ ax.pc = "parse"
          /\ ax.fixed_code_md # NoResponse
          /\ ax.fixed_code_md.fence = code_lang(ax.error_file_to_fix)
    /\ autofix' # ax

\* the step wrote a file or added to the history
WroteOrCommitted ==
    \/ autofix'.files # ax.files
    \/ autofix'.git.head # ax.git.head
    \/ autofix'.git.index # ax.git.index
    \/ autofix'.git.commits # ax.git.commits

\* C31 (as amended): without --yes-to-all, a confirmation step writes the
\* file and commits only when the answer, lower-cased, is 'y' ("y" or
\* "Y"); every other answer leaves the files, the index and the history as
\* they were.
C31_WrittenOnlyAfterYes ==
    [][AskedUser => (WroteOrCommitted => lower(autofix'.confirmation) = <<"y">>)]_vars

\* C31 (as stated): without --yes-to-all, a confirmation step writes the
\* file and commits only when the answer is 'y'; any other answer leaves
\* the file and the history unchanged.
C31_WrittenOnlyAfterLowercaseY ==
    [][AskedUser => (WroteOrCommitted => autofix'.confirmation = <<"y">>)]_vars

\* the user answered "Y" to the confirmation of a proposed fix, and the fix
\* was written and committed
C31_Witness ==
    /\ ~ ax.yes_to_all
    /\ ax.op = "apply_fix"
    /\ ax.confirmation = <<"Y">>
    /\ ax.git.commits > 0

\* C32: a permission error while reading or writing one file never ends the
\* run: autonomous_edit_loop is never left by a PermissionError.
C32_PermissionErrorNeverEndsRun ==
    ~(nymya_agent.pc = "raised" /\ nymya_agent.op.name = "permission_error")

(***************************************************************************)
(* Claims about the failure signature of federation_agent.py               *)
(***************************************************************************)
\* Step 4 of agent_loop: a failing iteration takes the signature of its
\* error context and updates loop_history
FailingIteration ==
    /\ federation_agent.pc = "check"
    /\ federation_agent'.pc = "llm"

C34_HandleErrorLoopEffect ==
    [][nymya_agent'.op.name = "handle_error_loop" =>
         LET p == nymya_agent'.op.path
             before == nymya_agent.fs
             after == nymya_agent'.fs
         IN  /\ p \in nymya_agent'.skip_files
             /\ exists(before, Bak(p))
                  => after[p] = before[Bak(p)] /\ ~exists(after, Bak(p))
             /\ ~exists(before, Bak(p))
                  => after[p] = before[p] /\ ~exists(after, Bak(p))
             /\ \A n \in FileNames \ {p, Bak(p)} : after[n] = before[n]
             /\ nymya_agent'.error_history = nymya_agent.error_history
             /\ nymya_agent'.skip_files \ {p} = nymya_agent.skip_files \ {p}
             /\ nymya_agent.skip_files \subseteq nymya_agent'.skip_files]_vars

\* handle_error_loop restored a changed file from its backup while another
\* path was in skip_files already
C34_Witness ==
    /\ nymya_agent.op.name = "handle_error_loop"
    /\ exists(nymya_agent.op.pre, Bak(nymya_agent.op.path))
    /\ nymya_agent.op.pre[nymya_agent.op.path]
          # nymya_agent.op.pre[Bak(nymya_agent.op.path)]
    /\ nymya_agent.fs[nymya_agent.op.path]
          = nymya_agent.op.pre[Bak(nymya_agent.op.path)]
    /\ nymya_agent.skip_files = Paths

(***************************************************************************)
(* Claims about fixes and builds in federation_agent.py                    *)
(***************************************************************************)
\* C35: every fix a loop applies is followed by a build before the loop
\* ends: agent_loop never returns with a fix written by apply_llm_fix that
\* no build has run on.
C35_NoUntestedFixAtEnd ==
    federation_agent.agent_loop = "returned" => ~federation_agent.untested_fix

\* the length of the run of equal elements that ends a sequence
RECURSIVE trailing_run(_)
trailing_run(seq) ==
    IF Len(seq) <= 1 THEN Len(seq)
    ELSE IF seq[Len(seq) - 1] = seq[Len(seq)]
         THEN trailing_run(SubSeq(seq, 1, Len(seq) - 1)) + 1
         ELSE 1

\* C36: after each failing iteration of agent_loop, loop_history[error_hash]
\* is the length of the current run of consecutive failing iterations with
\* that error hash (1 when the failure before had another hash), and the
\* repeated-error warning is printed exactly when that length exceeds 1.
C36_HistoryCountsCurrentRun ==
    federation_agent.pc = "llm" =>
        LET error_hash == hash_text(federation_agent.failures[Len(federation_agent.failures)])
            run_length == trailing_run([i \in 1..Len(federation_agent.failures) |->
                                          hash_text(federation_agent.failures[i])])
        IN  /\ federation_agent.last_error_hash = error_hash
            /\ federation_agent.loop_history[error_hash] = run_length
            /\ "repeated" \in federation_agent.printed <=> run_length > 1

\* a failure, a different failure and the same one again: the count of the
\* third iteration is 2, the run that ends there
C36_Witness ==
    /\ federation_agent.pc = "llm"
    /\ Len(federation_agent.failures) = 3
    /\ federation_agent.failures[1] # federation_agent.failures[2]
    /\ federation_agent.failures[2] = federation_agent.failures[3]
    /\ federation_agent.loop_history[federation_agent.last_error_hash] = 2
    /\ "repeated" \in federation_agent.printed

(***************************************************************************)
(* Claims about the heuristic fixers of nymya_man_and_build_autofix.py     *)
(***************************************************************************)
\* the file a fixer works on
FixedPath(name) ==
    IF name = "attempt_fix_compile_sh" THEN CompileSh ELSE DockerfileArm

\* C37: the heuristic fixers reach a fixed point after one application: a
\* call of attempt_fix_compile_sh or attempt_fix_dockerfile on a file the
\* same function has already fixed returns None and leaves the file and its
\* .bak backup as they were.
C37_FixersReachFixedPoint ==
    (nymya_man.fix.name # "none" /\ nymya_man.fix.name \in nymya_man.fix.already)
        => /\ nymya_man.fix.returned = "None"
           /\ nymya_man.files = nymya_man.fix.pre

C39_RollbackChangesRestoresAll ==
    nymya_agent.op.name = "rollback_changes" =>
        /\ nymya_agent.pc # "raised"
        /\ \A p \in Paths :
              exists(nymya_agent.op.pre, Bak(p))
                 => /\ nymya_agent.fs[p] = nymya_agent.op.pre[Bak(p)]
                    /\ ~exists(nymya_agent.fs, Bak(p))
        /\ nymya_agent.change_log = <<>>

====
